---- MODULE Spec2Model ----
(***************************************************************************)
(* Extraction and correlation layer of the Aerospike benchmark analyzers.  *)
(*                                                                         *)
(*   read pipeline : aerospike_read_benchmark_analyzer/                    *)
(*                   extract_benchmark_data.py (BenchmarkDataExtractor)    *)
(*   write pipeline: aerospike_write_benchmark_analyzer/                   *)
(*                   extract_benchmark_data.py                             *)
(*                                                                         *)
(* Text is modelled at token granularity.  A line is the sequence of its   *)
(* whitespace-separated tokens (line.strip().split()); a token is a record *)
(*   k : the token's lexical class                                         *)
(*   v : its number (for a numeric token) or an identifier of its text     *)
(*   c : the number of trailing commas of a numeric token                  *)
(*   g : for a `read(tps=N (hit=H miss=M) timeouts=T errors=E)` group, the *)
(*       tuple <<H, M, T, E>> (the group is five whitespace tokens in the  *)
(*       file and is kept as one composite token of width 5)               *)
(* A float average sum/len is kept as the exact fraction [num, den].       *)
(***************************************************************************)
EXTENDS Integers, Sequences, FiniteSets, TLC

VARIABLES
    lines,            \* read log parser: the lines of the file consumed so far
    in_config,        \* read log parser: local in_config
    config,           \* read log parser: local config (function key -> value)
    per_second_data,  \* read log parser: local per_second_data
    pc,               \* read log parser: "parsing", "done" or "raised"
    hdr_files,        \* read pipeline: glob result of hdr_stats/*.txt, in glob order
    log_files,        \* read pipeline: glob result of read_latency_*.log
    hdr_data,         \* BenchmarkDataExtractor.hdr_data
    log_data,         \* BenchmarkDataExtractor.log_data
    rows,             \* summary rows built by the last save_summary_to_csv / create_dataframes
    per_second_rows,  \* per-second rows built by the last create_dataframes
    ppc,              \* read pipeline: "idle" or "raised" (an exception left a method)
    wpc,              \* write parse_hdr_file: "open", "reading", "done" or "raised"
    percentiles,      \* write parse_hdr_file: local percentiles, a dict in insertion
                      \* order: a sequence of <<percentile, value>> with distinct keys
    wstats,           \* write parse_hdr_file: locals mean, std_dev, max_value, ...
    key_percentiles,  \* write parse_hdr_file: local key_percentiles
    target,           \* write find_closest_percentile: the argument of the last call
    result,           \* write find_closest_percentile: the value of the last call
    metrics,          \* write parse_log_file: local metrics
    data_file,        \* read pipeline: benchmark_data.json, <<>> (no file) or <<content>>
    per_second_df,    \* BenchmarkVisualizer.per_second_df: the rows, grouped by key string
    vpc               \* BenchmarkVisualizer.load_data: "new", "loaded" or "raised"

vars == <<lines, in_config, config, per_second_data, pc,
          hdr_files, log_files, hdr_data, log_data, rows, per_second_rows, ppc,
          wpc, percentiles, wstats, key_percentiles, target, result, metrics,
          data_file, per_second_df, vpc>>

logVars == <<lines, in_config, config, per_second_data, pc>>
pipeVars == <<hdr_files, log_files, hdr_data, log_data, rows, per_second_rows, ppc>>
pctVars == <<wpc, percentiles, wstats, key_percentiles, target, result, metrics>>
vizVars == <<data_file, per_second_df, vpc>>

(***************************************************************************)
(* Bounds of the model.                                                    *)
(***************************************************************************)
MaxLines == 4
MaxLead == 11
MaxTail == 3
MaxFiles == 2
MaxTable == 3

\* Python's None
None == -1

(***************************************************************************)
(* Tokens and lines.                                                       *)
(***************************************************************************)
Tok(k, v) == [k |-> k, v |-> v, c |-> 0, g |-> <<>>]
Num(v, c) == [k |-> "num", v |-> v, c |-> c, g |-> <<>>]
\* `2025-06-01`-like first token; v is the year
Date(y) == Tok("date", y)
\* `10:00:0v`-like token (holds a colon)
Time(v) == Tok("time", v)
\* `Name:` token, a word with a trailing colon
Key(v) == Tok("key", v)
\* a word that is no integer and holds no colon
Word(v) == Tok("word", v)
\* the five tokens `read(tps=N (hit=H miss=M) timeouts=T errors=E)`
TpsGroup(n, h, m, t, e) == [k |-> "tps", v |-> n, c |-> 0, g |-> <<h, m, t, e>>]
\* text holding `read(tps=` that the throughput pattern does not match
TpsBad == Tok("tpsbad", 0)
\* one token that starts with `2025-` and holds `read(tps=`, no whitespace
DateTps(y) == Tok("datetps", y)

\* len(line.split())
NTokens(line) == Len(line) + 4 * Cardinality({i \in DOMAIN line : line[i].k = "tps"})

\* line.startswith('2025-')
StartsWith2025(line) ==
    /\ Len(line) > 0
    /\ line[1].k \in {"date", "datetps"}
    /\ line[1].v = 2025

\* ':' in line
HasColon(line) ==
    \E i \in DOMAIN line : line[i].k \in {"time", "key", "one:", "hdr:", "datetps"}

\* 'read(tps=' in line
HasReadTps(line) ==
    \E i \in DOMAIN line : line[i].k \in {"tps", "tpsbad", "datetps"}

\* line.startswith('Stage 1:')
IsStageMarker(line) ==
    /\ Len(line) >= 2
    /\ line[1].k = "Stage"
    /\ line[2].k = "one:"

\* line.startswith('hdr: read')
IsHdrRead(line) ==
    /\ Len(line) >= 2
    /\ line[1].k = "hdr:"
    /\ line[2].k = "read"

\* re.search(r'read\(tps=(\d+) \(hit=(\d+) miss=(\d+)\) timeouts=(\d+) errors=(\d+)\)', line)
TpsMatchIndex(line) ==
    IF \E i \in DOMAIN line : line[i].k = "tps"
    THEN CHOOSE i \in DOMAIN line :
            /\ line[i].k = "tps"
            /\ \A j \in DOMAIN line : line[j].k = "tps" => i <= j
    ELSE 0

\* int(tok.rstrip(',')) when strip, int(tok) otherwise: <<TRUE, n>> or <<FALSE, 0>> (ValueError)
ParseInt(tok, strip) ==
    IF tok.k = "num" /\ (strip \/ tok.c = 0)
    THEN <<TRUE, tok.v>>
    ELSE <<FALSE, 0>>

\* parts[i] with Python's 0-based index
Part(parts, i) == parts[i + 1]

(***************************************************************************)
(* Read log parser: the body of the `for line in f` loop of                *)
(* BenchmarkDataExtractor.extract_log_data.                                *)
(***************************************************************************)
\* index of the first token of the line that holds a colon
FirstColon(line) ==
    CHOOSE i \in DOMAIN line :
        /\ line[i].k \in {"time", "key", "one:", "hdr:", "datetps"}
        /\ \A j \in 1..(i - 1) : line[j].k \notin {"time", "key", "one:", "hdr:", "datetps"}

\* parts = line.split(':', 1); config[parts[0].strip()] = parts[1].strip()
ConfigPut(cfg, line) ==
    LET i == FirstColon(line)
    IN  (SubSeq(line, 1, i) :> SubSeq(line, i + 1, Len(line))) @@ cfg

\* ConfigStep without the test of in_config
ConfigStepAlways(st, line) ==
    IF HasColon(line) /\ ~StartsWith2025(line)
    THEN [st EXCEPT !.config = ConfigPut(st.config, line)]
    ELSE st

\* lines 135-138: the configuration section
ConfigStep(st, line) ==
    IF st.in_config /\ HasColon(line) /\ ~StartsWith2025(line)
    THEN [st EXCEPT !.config = ConfigPut(st.config, line)]
    ELSE st

\* second_data of lines 154-161
SecondData(line) ==
    LET t == line[TpsMatchIndex(line)]
    IN  [timestamp |-> <<line[1], line[2]>>,
         tps |-> t.v,
         hits |-> t.g[1],
         misses |-> t.g[2],
         timeouts |-> t.g[3],
         errors |-> t.g[4]]

\* lines 146-163: a per-second throughput line
ThroughputStep(st, line) ==
    IF StartsWith2025(line) /\ HasReadTps(line)
    THEN IF NTokens(line) < 2
         THEN [st EXCEPT !.pc = "raised"]      \* line.split()[1]: IndexError, not caught
         ELSE IF TpsMatchIndex(line) # 0
              THEN [st EXCEPT !.per_second_data = Append(@, SecondData(line))]
              ELSE st
    ELSE st

\* the try block of lines 169-181 raises ValueError or IndexError
HdrRejected(parts) ==
    \/ Len(parts) < 11                                            \* parts[10]
    \/ \E i \in 3..10 : ~ParseInt(Part(parts, i), TRUE)[1]        \* int(parts[i].rstrip(','))
    \/ Len(parts) > 11 /\ ~ParseInt(Part(parts, 11), FALSE)[1]    \* int(parts[11])

\* hdr_data of lines 170-181
HdrData(parts) ==
    [timestamp |-> <<Part(parts, 2)>>,
     seconds |-> ParseInt(Part(parts, 3), TRUE)[2],
     total |-> ParseInt(Part(parts, 4), TRUE)[2],
     min_latency |-> ParseInt(Part(parts, 5), TRUE)[2],
     max_latency |-> ParseInt(Part(parts, 6), TRUE)[2],
     p50 |-> ParseInt(Part(parts, 7), TRUE)[2],
     p90 |-> ParseInt(Part(parts, 8), TRUE)[2],
     p99 |-> ParseInt(Part(parts, 9), TRUE)[2],
     p99_9 |-> ParseInt(Part(parts, 10), TRUE)[2],
     p99_99 |-> IF Len(parts) > 11 THEN ParseInt(Part(parts, 11), FALSE)[2] ELSE None]

\* MergeIntoLast with the histogram line of an empty sequence kept as a Sample
MergeIntoLastOrAppend(psd, hdr) ==
    IF psd # <<>>
    THEN [psd EXCEPT ![Len(psd)] = hdr @@ @]
    ELSE <<hdr>>

\* lines 184-185: if per_second_data: per_second_data[-1].update(hdr_data)
MergeIntoLast(psd, hdr) ==
    IF psd # <<>>
    THEN [psd EXCEPT ![Len(psd)] = hdr @@ @]
    ELSE psd

\* HistogramStep with the fields written into the last Sample one by one, so
\* that a line rejected part-way leaves the fields read before the failure
HistogramStepPartial(st, line) ==
    IF IsHdrRead(line) /\ Len(line) >= 10
    THEN IF ~HdrRejected(line)
         THEN [st EXCEPT !.per_second_data = MergeIntoLast(@, HdrData(line))]
         ELSE [st EXCEPT !.per_second_data =
                            MergeIntoLast(@, [timestamp |-> <<Part(line, 2)>>])]
    ELSE st

\* lines 166-187: a `hdr: read` histogram line
HistogramStep(st, line) ==
    IF IsHdrRead(line) /\ Len(line) >= 10 /\ ~HdrRejected(line)
    THEN [st EXCEPT !.per_second_data = MergeIntoLast(@, HdrData(line))]
    ELSE st

\* ProcessLine with in_config set again by a `hdr: read` line that is rejected
ProcessLineRollingBack(st, line) ==
    LET s1 == ConfigStep(st, line)
    IN  IF IsStageMarker(line)
        THEN [s1 EXCEPT !.in_config = FALSE]
        ELSE LET s2 == ThroughputStep(s1, line)
             IN  IF s2.pc = "raised" THEN s2
                 ELSE IF IsHdrRead(line) /\ HdrRejected(line)
                      THEN [s2 EXCEPT !.in_config = TRUE]
                      ELSE HistogramStep(s2, line)

\* lines 131-187: one iteration of the loop
ProcessLine(st, line) ==
    LET s1 == ConfigStep(st, line)
    IN  IF IsStageMarker(line)
        THEN [s1 EXCEPT !.in_config = FALSE]                      \* continue
        ELSE LET s2 == ThroughputStep(s1, line)
             IN  IF s2.pc = "raised" THEN s2 ELSE HistogramStep(s2, line)

\* lines 125-129: the parser's locals before the first line
ParserStart ==
    [in_config |-> TRUE, config |-> <<>>, per_second_data |-> <<>>, pc |-> "parsing"]

\* lines 128-187: the whole loop over the lines of one file
RECURSIVE ParseLines(_, _)
ParseLines(st, ls) ==
    IF ls = <<>> \/ st.pc = "raised"
    THEN st
    ELSE ParseLines(ProcessLine(st, Head(ls)), Tail(ls))

(***************************************************************************)
(* Read aggregator: lines 189-226 of extract_log_data.                     *)
(***************************************************************************)
\* the warm-up constant of line 197
Warmup == 10

RECURSIVE SumSeq(_)
SumSeq(xs) == IF xs = <<>> THEN 0 ELSE Head(xs) + SumSeq(Tail(xs))

\* min(xs), max(xs) of a non-empty list
MinSeq(xs) == CHOOSE x \in {xs[i] : i \in DOMAIN xs} : \A j \in DOMAIN xs : x <= xs[j]
MaxSeq(xs) == CHOOSE x \in {xs[i] : i \in DOMAIN xs} : \A j \in DOMAIN xs : x >= xs[j]

\* a / b of Python (float division), kept exact
Frac(a, b) == [num |-> a, den |-> b]

\* sum(xs) / len(xs) if xs else 0
AvgOrZero(xs) == IF xs # <<>> THEN Frac(SumSeq(xs), Len(xs)) ELSE Frac(0, 1)
MinOrZero(xs) == IF xs # <<>> THEN MinSeq(xs) ELSE 0
MaxOrZero(xs) == IF xs # <<>> THEN MaxSeq(xs) ELSE 0

\* line 191: [entry['tps'] for entry in per_second_data]
TpsValues(psd) == [i \in DOMAIN psd |-> psd[i].tps]

\* StableData without the warm-up cut
StableDataAll(psd) == psd

\* line 197: per_second_data[10:] if len(per_second_data) > 10 else per_second_data
StableData(psd) ==
    IF Len(psd) > Warmup THEN SubSeq(psd, Warmup + 1, Len(psd)) ELSE psd

\* FieldValues with a missing field counted as 0: [entry.get(f, 0) for entry in stable_data]
FieldValuesOrZero(stable, f) ==
    [i \in DOMAIN stable |-> IF f \in DOMAIN stable[i] THEN stable[i][f] ELSE 0]

\* lines 199-201: [entry.get(f, 0) for entry in stable_data if f in entry]
FieldValues(stable, f) ==
    LET has == SelectSeq(stable, LAMBDA e : f \in DOMAIN e)
    IN  [i \in DOMAIN has |-> has[i][f]]

\* lines 203-213
LatencyStats(psd) ==
    LET stable == StableData(psd)
        p50_values == FieldValues(stable, "p50")
        p90_values == FieldValues(stable, "p90")
        p99_values == FieldValues(stable, "p99")
    IN  [avg_p50 |-> AvgOrZero(p50_values),
         avg_p90 |-> AvgOrZero(p90_values),
         avg_p99 |-> AvgOrZero(p99_values),
         min_p50 |-> MinOrZero(p50_values),
         min_p90 |-> MinOrZero(p90_values),
         min_p99 |-> MinOrZero(p99_values),
         max_p50 |-> MaxOrZero(p50_values),
         max_p90 |-> MaxOrZero(p90_values),
         max_p99 |-> MaxOrZero(p99_values)]

\* TpsStats taken over the stable window instead of all samples
TpsStatsStable(psd) ==
    LET tps_values == TpsValues(StableData(psd))
    IN  [avg_tps |-> Frac(SumSeq(tps_values), Len(tps_values)),
         max_tps |-> MaxSeq(tps_values),
         min_tps |-> MinSeq(tps_values)]

\* lines 191-194: the throughput statistics
TpsStats(psd) ==
    LET tps_values == TpsValues(psd)
    IN  [avg_tps |-> Frac(SumSeq(tps_values), Len(tps_values)),
         max_tps |-> MaxSeq(tps_values),
         min_tps |-> MinSeq(tps_values)]

\* lines 220-225: the 'aggregate' dict of a non-empty per_second_data
Aggregate(psd) ==
    LET t == TpsStats(psd)
    IN  [avg_tps |-> t.avg_tps,
         max_tps |-> t.max_tps,
         min_tps |-> t.min_tps,
         latency |-> LatencyStats(psd)]

\* lines 216-226: the entry stored in log_data
LogEntry(params, cfg, psd) ==
    [params |-> params, config |-> cfg, per_second_data |-> psd,
     aggregate |-> Aggregate(psd)]

\* StoreLog with the samples of a key that has an entry added to that entry's
StoreLogExtending(ld, key, params, cfg, psd) ==
    IF psd # <<>>
    THEN IF key \in DOMAIN ld
         THEN (key :> LogEntry(params, cfg, ld[key].per_second_data \o psd)) @@ ld
         ELSE (key :> LogEntry(params, cfg, psd)) @@ ld
    ELSE ld

\* lines 189-226: self.log_data[key] = {...} only if per_second_data
StoreLog(ld, key, params, cfg, psd) ==
    IF psd # <<>>
    THEN (key :> LogEntry(params, cfg, psd)) @@ ld
    ELSE ld

(***************************************************************************)
(* Lines a read log file is made of in the model.                          *)
(***************************************************************************)
\* `Threads: 20`
CfgLine == <<Key(1), Num(20, 0)>>
\* `Stage 1: default config`
StageLine == <<Tok("Stage", 0), Tok("one:", 0), Word(1)>>
\* `2025-06-01 10:00:01 read(tps=1000 (hit=900 miss=100) timeouts=0 errors=0)`
TpsLineA == <<Date(2025), Time(1), TpsGroup(1000, 900, 100, 0, 0)>>
\* `2025-06-01 10:00:02 read(tps=2000 (hit=1500 miss=500) timeouts=1 errors=2)`
TpsLineB == <<Date(2025), Time(2), TpsGroup(2000, 1500, 500, 1, 2)>>
\* `2025-06-01 10:00:01 read(tps=n/a)`: the marker without the counts
TpsLineBad == <<Date(2025), Time(1), TpsBad>>
\* `2025-06-01T10:00:01,read(tps=1000`: the marker in a line of one token
TpsLineOneToken == <<DateTps(2025)>>
\* `hdr: read ts 1, 1000, 5, 500, 50, 90, 99, 150`
HdrLine11 ==
    <<Tok("hdr:", 0), Tok("read", 0), Word(7), Num(1, 1), Num(1000, 1), Num(5, 1),
      Num(500, 1), Num(50, 1), Num(90, 1), Num(99, 1), Num(150, 0)>>
\* `hdr: read ts 2, 2000, 6, 600, 51, 91, 98, 151, 200`
HdrLine12 ==
    <<Tok("hdr:", 0), Tok("read", 0), Word(8), Num(2, 1), Num(2000, 1), Num(6, 1),
      Num(600, 1), Num(51, 1), Num(91, 1), Num(98, 1), Num(151, 1), Num(200, 0)>>
\* `hdr: read ts 3, 3000, 7, 700, 52, 92, 97, 152, 201,`
HdrLineComma ==
    <<Tok("hdr:", 0), Tok("read", 0), Word(9), Num(3, 1), Num(3000, 1), Num(7, 1),
      Num(700, 1), Num(52, 1), Num(92, 1), Num(97, 1), Num(152, 1), Num(201, 1)>>
\* `hdr: read ts 4, 4000, 8, 800, 53, 93, 96`: ten tokens, no p99.9
HdrLine10 ==
    <<Tok("hdr:", 0), Tok("read", 0), Word(7), Num(4, 1), Num(4000, 1), Num(8, 1),
      Num(800, 1), Num(53, 1), Num(93, 1), Num(96, 0)>>
\* `hdr: read ts 5, 5000, 9, 900, 54, n/a, 95, 153`: a token that is no integer
HdrLineJunk ==
    <<Tok("hdr:", 0), Tok("read", 0), Word(7), Num(5, 1), Num(5000, 1), Num(9, 1),
      Num(900, 1), Num(54, 1), Word(2), Num(95, 1), Num(153, 0)>>

LineChoices ==
    {CfgLine, StageLine, TpsLineA, TpsLineB, TpsLineBad, TpsLineOneToken,
     HdrLine11, HdrLine12, HdrLineComma, HdrLine10, HdrLineJunk}

\* the parameters parse_filename gives for the file being read
FileParams == [percentage |-> 50, size_bytes |-> 1024, threads |-> 20, timestamp |-> <<1>>]
\* line 123
KeyOf(params) == <<params.percentage, params.size_bytes, params.threads>>

\* the parser's locals as one record
ParserState ==
    [in_config |-> in_config, config |-> config,
     per_second_data |-> per_second_data, pc |-> pc]

(***************************************************************************)
(* Spec: extract_log_data reading one recognized log file line by line.    *)
(***************************************************************************)
\* no benchmark_data.json yet, no BenchmarkVisualizer built
InitViz ==
    /\ data_file = <<>>
    /\ per_second_df = <<>>
    /\ vpc = "new"

\* the locals of the write parsers before a file is read: lines 36-43 of
\* parse_hdr_file and line 170 of parse_log_file
InitHdrLocals ==
    /\ wpc = "open"
    /\ percentiles = <<>>
    /\ wstats = [mean |-> None, std_dev |-> None, max_value |-> None,
                 total_count |-> None, db_size |-> None, index_size |-> None]
    /\ key_percentiles = <<>>
    /\ target = None
    /\ result = None
    /\ metrics = <<>>

InitRest ==
    /\ hdr_files = <<>>
    /\ log_files = <<>>
    /\ hdr_data = <<>>
    /\ rows = <<>>
    /\ per_second_rows = <<>>
    /\ ppc = "idle"
    /\ InitHdrLocals
    /\ InitViz

Init ==
    /\ lines = <<>>
    /\ in_config = TRUE
    /\ config = <<>>
    /\ per_second_data = <<>>
    /\ pc = "parsing"
    /\ log_data = <<>>
    /\ InitRest

\* one iteration of `for line in f` (lines 131-187)
ReadLine(line) ==
    /\ pc = "parsing"
    /\ Len(lines) < MaxLines
    /\ \E st \in {ProcessLine(ParserState, line)} :
           /\ in_config' = st.in_config
           /\ config' = st.config
           /\ per_second_data' = st.per_second_data
           /\ pc' = st.pc
    /\ lines' = Append(lines, line)
    /\ UNCHANGED <<log_data, hdr_files, log_files, hdr_data, rows, per_second_rows, ppc, pctVars, vizVars>>

\* the end of the file: lines 189-226
EndOfFile ==
    /\ pc = "parsing"
    /\ pc' = "done"
    /\ log_data' = StoreLog(log_data, KeyOf(FileParams), FileParams, config, per_second_data)
    /\ UNCHANGED <<lines, in_config, config, per_second_data,
                   hdr_files, log_files, hdr_data, rows, per_second_rows, ppc, pctVars, vizVars>>

Next ==
    \/ \E line \in LineChoices : ReadLine(line)
    \/ EndOfFile

Spec == Init /\ [][Next]_vars

(***************************************************************************)
(* Properties of the read log parser, checked under Spec.                  *)
(***************************************************************************)
\* a throughput line the parser matches: timestamp, then the read(tps=...) group
IsThroughputLine(line) ==
    /\ Len(line) > 0
    /\ line[1] = Date(2025)
    /\ \E i \in DOMAIN line : line[i].k = "tps"

\* a `hdr: read` line with the positional numeric fields of the format: elapsed
\* seconds, total, min, max, p50, p90, p99, p99.9 and optionally p99.99, each
\* an integer with or without trailing commas
IsHistogramLine(line) ==
    /\ IsHdrRead(line)
    /\ Len(line) \in {11, 12}
    /\ \A i \in 4..Len(line) : line[i].k = "num"

ThroughputIdx(ls) == {i \in DOMAIN ls : IsThroughputLine(ls[i])}
\* the position in the sample sequence of the Sample of throughput line i
SampleOf(ls, i) == Cardinality({j \in ThroughputIdx(ls) : j <= i})

\* every `hdr: read` line directly follows the throughput line of its second
EveryHdrFollowsThroughput(ls) ==
    \A i \in DOMAIN ls : IsHdrRead(ls[i]) => i > 1 /\ IsThroughputLine(ls[i - 1])

\* C1: when the file has been read and every `hdr: read` line follows a
\* throughput line, the sample sequence holds one Sample per throughput line, in
\* file order, with the counts of that line, and the latency fields of a Sample
\* equal those of the histogram line that follows its throughput line.
C1_MergeInvariant ==
    (pc = "done" /\ EveryHdrFollowsThroughput(lines)) =>
        /\ Len(per_second_data) = Cardinality(ThroughputIdx(lines))
        /\ \A i \in ThroughputIdx(lines) :
              LET s == per_second_data[SampleOf(lines, i)]
                  t == lines[i][TpsMatchIndex(lines[i])]
              IN  /\ s.tps = t.v /\ s.hits = t.g[1] /\ s.misses = t.g[2]
                  /\ (i < Len(lines) /\ IsHistogramLine(lines[i + 1])) =>
                        LET h == lines[i + 1]
                        IN  /\ {"min_latency", "max_latency", "p50", "p90", "p99", "p99_9"}
                                  \subseteq DOMAIN s
                            /\ s.min_latency = h[6].v /\ s.max_latency = h[7].v
                            /\ s.p50 = h[8].v /\ s.p90 = h[9].v
                            /\ s.p99 = h[10].v /\ s.p99_9 = h[11].v

RECURSIVE DroppedFrom(_, _, _)
\* the `hdr: read` lines of ls that arrive while the sample sequence is empty,
\* for a parser in state st at the line of index `from`
DroppedFrom(st, ls, from) ==
    IF ls = <<>> \/ st.pc = "raised" THEN {}
    ELSE (IF IsHdrRead(Head(ls)) /\ st.per_second_data = <<>> THEN {from} ELSE {})
            \cup DroppedFrom(ProcessLine(st, Head(ls)), Tail(ls), from + 1)
DroppedIdx(ls) == DroppedFrom(ParserStart, ls, 1)

RECURSIVE DropsKeepEmpty(_, _)
\* each such line leaves the sample sequence empty and raises nothing
DropsKeepEmpty(st, ls) ==
    IF ls = <<>> \/ st.pc = "raised" THEN TRUE
    ELSE LET nx == ProcessLine(st, Head(ls))
         IN  /\ (IsHdrRead(Head(ls)) /\ st.per_second_data = <<>>) =>
                    (nx.per_second_data = <<>> /\ nx.pc # "raised")
             /\ DropsKeepEmpty(nx, Tail(ls))

RECURSIVE Without(_, _, _)
\* ls (whose first line has index `from`) without the lines whose index is in idx
Without(ls, idx, from) ==
    IF ls = <<>> THEN <<>>
    ELSE IF from \in idx THEN Without(Tail(ls), idx, from + 1)
         ELSE <<Head(ls)>> \o Without(Tail(ls), idx, from + 1)

\* the key a `hdr: ...` line gets when it is read as a `key: value` line
HdrKey == <<Tok("hdr:", 0)>>
WithoutHdrKey(cfg) == [k \in DOMAIN cfg \ {HdrKey} |-> cfg[k]]

\* C2: a `hdr: read` line read while the sample sequence is empty leaves it
\* empty and raises nothing, and the parse goes on as if the line were absent:
\* the parser is where it is after the same lines without the dropped ones
\* (sample sequence, state, position; config too, but for the `hdr` entry that
\* such a line leaves when it is read before the stage marker).
C2_HdrOnEmptyDropped ==
    /\ DropsKeepEmpty(ParserStart, lines)
    /\ LET d == DroppedIdx(lines)
           w == ParseLines(ParserStart, Without(lines, d, 1))
       IN  /\ per_second_data = w.per_second_data
           /\ in_config = w.in_config
           /\ (pc = "raised") = (w.pc = "raised")
           /\ WithoutHdrKey(config) = WithoutHdrKey(w.config)
           /\ (\A i \in d : \E j \in 1..(i - 1) : IsStageMarker(lines[j])) =>
                  config = w.config

C2_Witness ==
    /\ pc = "done"
    /\ Len(lines) = 3
    /\ lines[1] = StageLine
    /\ lines[2] = HdrLine11
    /\ lines[3] = TpsLineA
    /\ Len(per_second_data) = 1
    /\ "p50" \notin DOMAIN per_second_data[1]

\* C10: no sample line makes the parse of the file stop with an exception.
C10_LineFailureNeverAborts == pc # "raised"

(***************************************************************************)
(* SpecAgg: the aggregation at the end of extract_log_data (lines 189-226) *)
(* for log files long enough to have a warm-up period.  A file is the      *)
(* stage marker, a run of up to MaxLead equal seconds and up to MaxTail    *)
(* further seconds; a second is a throughput line with or without its      *)
(* histogram line.                                                         *)
(***************************************************************************)
SecondChoices == {<<TpsLineA>>, <<TpsLineA, HdrLine11>>, <<TpsLineB, HdrLine12>>}

RECURSIVE Flatten(_)
Flatten(ss) == IF ss = <<>> THEN <<>> ELSE Head(ss) \o Flatten(Tail(ss))

Repeat(x, n) == [i \in 1..n |-> x]

AggFiles ==
    {<<StageLine>> \o Flatten(Repeat(lead, n) \o tail) :
        lead \in SecondChoices,
        n \in 0..MaxLead,
        tail \in UNION {[1..k -> SecondChoices] : k \in 0..MaxTail}}

InitAgg ==
    /\ lines \in AggFiles
    /\ LET st == ParseLines(ParserStart, lines)
       IN  /\ in_config = st.in_config
           /\ config = st.config
           /\ per_second_data = st.per_second_data
           /\ pc = st.pc
    /\ log_data = <<>>
    /\ InitRest

SpecAgg == InitAgg /\ [][EndOfFile]_vars

\* the indexes of the stable window of a sequence of n samples
Window(n) == IF n > 10 THEN 11..n ELSE 1..n
\* the samples of the stable window of psd that have field f
Having(psd, f) == {i \in Window(Len(psd)) : f \in DOMAIN psd[i]}

RECURSIVE SumOver(_, _, _)
SumOver(psd, f, idx) ==
    IF idx = {} THEN 0
    ELSE LET i == CHOOSE j \in idx : TRUE
         IN  psd[i][f] + SumOver(psd, f, idx \ {i})

\* the entry of the file in log_data
Stored == log_data[KeyOf(FileParams)]
HasStored == pc = "done" /\ KeyOf(FileParams) \in DOMAIN log_data

\* avg, lo, hi are the average, minimum and maximum of field f over idx (# {})
IsStatsOf(psd, f, idx, avg, lo, hi) ==
    /\ avg.num * Cardinality(idx) = SumOver(psd, f, idx) * avg.den
    /\ \E i \in idx : psd[i][f] = lo
    /\ \A i \in idx : psd[i][f] >= lo
    /\ \E i \in idx : psd[i][f] = hi
    /\ \A i \in idx : psd[i][f] <= hi

\* 15 samples with p99 = [10]*10 + [20, 22, 24, 26, 28]
ExampleP99 == <<10, 10, 10, 10, 10, 10, 10, 10, 10, 10, 20, 22, 24, 26, 28>>
ExampleSamples ==
    [i \in 1..15 |-> [tps |-> 1000, p50 |-> 5, p90 |-> 9, p99 |-> ExampleP99[i]]]

\* C3: the avg/min/max of p50, p90 and p99 of a stored LogRecord are those of
\* the samples after the first 10 when there are more than 10 samples, and of
\* all samples otherwise; the example's 15 samples give avg_p99 = 24.
C3_StableWindow ==
    /\ HasStored =>
          LET psd == Stored.per_second_data
              lat == Stored.aggregate.latency
          IN  /\ Having(psd, "p50") # {} =>
                    IsStatsOf(psd, "p50", Having(psd, "p50"), lat.avg_p50, lat.min_p50, lat.max_p50)
              /\ Having(psd, "p90") # {} =>
                    IsStatsOf(psd, "p90", Having(psd, "p90"), lat.avg_p90, lat.min_p90, lat.max_p90)
              /\ Having(psd, "p99") # {} =>
                    IsStatsOf(psd, "p99", Having(psd, "p99"), lat.avg_p99, lat.min_p99, lat.max_p99)
    /\ LET a == LatencyStats(ExampleSamples).avg_p99
       IN  a.num = 24 * a.den

C3_Witness ==
    /\ HasStored
    /\ Len(Stored.per_second_data) > 10
    /\ "p99" \in DOMAIN Stored.per_second_data[1]
    /\ Stored.per_second_data[1].p99 = 99
    /\ \A i \in Window(Len(Stored.per_second_data)) :
          /\ "p99" \in DOMAIN Stored.per_second_data[i]
          /\ Stored.per_second_data[i].p99 = 98
    /\ Stored.aggregate.latency.avg_p99.num = 98 * Stored.aggregate.latency.avg_p99.den

\* C4: a sample of the stable window without a latency field does not count
\* for that field (the average divides by the number of samples that have it,
\* and the minimum is the least value present), and when no sample of the
\* window has the field its avg, min and max are 0.
C4_MissingExcluded ==
    HasStored =>
        LET psd == Stored.per_second_data
            lat == Stored.aggregate.latency
            have == Having(psd, "p99")
        IN  /\ have = {} =>
                  /\ lat.avg_p99.num = 0 /\ lat.min_p99 = 0 /\ lat.max_p99 = 0
                  /\ lat.avg_p50.num = 0 /\ lat.min_p50 = 0 /\ lat.max_p50 = 0
                  /\ lat.avg_p90.num = 0 /\ lat.min_p90 = 0 /\ lat.max_p90 = 0
            /\ have # {} =>
                  /\ lat.avg_p99.num * Cardinality(have) = SumOver(psd, "p99", have) * lat.avg_p99.den
                  /\ \E i \in have : lat.min_p99 = psd[i].p99
                  /\ \A i \in have : lat.min_p99 <= psd[i].p99

C4_Witness ==
    /\ HasStored
    /\ \E i, j \in Window(Len(Stored.per_second_data)) :
          /\ "p99" \in DOMAIN Stored.per_second_data[i]
          /\ "p99" \notin DOMAIN Stored.per_second_data[j]
    /\ Stored.aggregate.latency.min_p99 = 98

\* C5: avg_tps, min_tps and max_tps of a stored LogRecord are taken over all
\* its samples, the first 10 included, and min_tps <= avg_tps <= max_tps.
C5_TpsOverAll ==
    HasStored =>
        LET psd == Stored.per_second_data
            agg == Stored.aggregate
            all == DOMAIN psd
        IN  /\ IsStatsOf(psd, "tps", all, agg.avg_tps, agg.min_tps, agg.max_tps)
            /\ agg.avg_tps.den > 0
            /\ agg.min_tps * agg.avg_tps.den <= agg.avg_tps.num
            /\ agg.avg_tps.num <= agg.max_tps * agg.avg_tps.den

C5_Witness ==
    /\ HasStored
    /\ Len(Stored.per_second_data) > 10
    /\ Stored.per_second_data[1].tps = 2000
    /\ \A i \in Window(Len(Stored.per_second_data)) : Stored.per_second_data[i].tps = 1000
    /\ Stored.aggregate.max_tps = 2000
    /\ Stored.aggregate.min_tps = 1000

(***************************************************************************)
(* File names.  A name is the sequence of its maximal runs of digits and   *)
(* of the text between them: Lit("read_latency_"), Digits(<<5, 0>>), ...   *)
(***************************************************************************)
Lit(t) == [k |-> "lit", t |-> t, d |-> <<>>]
Digits(d) == [k |-> "digits", t |-> "", d |-> d]

\* int(ds) of a string of decimal digits
RECURSIVE DigitsToInt(_)
DigitsToInt(ds) ==
    IF ds = <<>> THEN 0
    ELSE 10 * DigitsToInt(SubSeq(ds, 1, Len(ds) - 1)) + ds[Len(ds)]

\* texts that end with `read_latency_`
EndsWithReadLatency(t) == t \in {"read_latency_", "old_read_latency_"}

\* line 28: r'read_latency_(\d+)pct_(\d+)B_thr(\d+)_(\d+)' matches from component i on
FilePatternAt(name, i) ==
    /\ i + 7 <= Len(name)
    /\ name[i].k = "lit" /\ EndsWithReadLatency(name[i].t)
    /\ name[i + 1].k = "digits"
    /\ name[i + 2] = Lit("pct_")
    /\ name[i + 3].k = "digits"
    /\ name[i + 4] = Lit("B_thr")
    /\ name[i + 5].k = "digits"
    /\ name[i + 6] = Lit("_")
    /\ name[i + 7].k = "digits"

\* parse_filename with len() in place of int(): each group taken as the length
\* of its digit string
ParseFilenameByLength(name) ==
    IF \E i \in DOMAIN name : FilePatternAt(name, i)
    THEN LET i == CHOOSE j \in DOMAIN name :
                    FilePatternAt(name, j) /\ \A h \in 1..(j - 1) : ~FilePatternAt(name, h)
         IN  <<[percentage |-> Len(name[i + 1].d),
                size_bytes |-> Len(name[i + 3].d),
                threads |-> Len(name[i + 5].d),
                timestamp |-> name[i + 7].d]>>
    ELSE <<>>

\* lines 34-45: parse_filename; <<params>> for a match, <<>> for None
ParseFilename(name) ==
    IF \E i \in DOMAIN name : FilePatternAt(name, i)
    THEN LET i == CHOOSE j \in DOMAIN name :
                    FilePatternAt(name, j) /\ \A h \in 1..(j - 1) : ~FilePatternAt(name, h)
         IN  <<[percentage |-> DigitsToInt(name[i + 1].d),
                size_bytes |-> DigitsToInt(name[i + 3].d),
                threads |-> DigitsToInt(name[i + 5].d),
                timestamp |-> name[i + 7].d]>>
    ELSE <<>>

(***************************************************************************)
(* Read histogram parser: the body of extract_hdr_stats (lines 60-108).    *)
(* A float is the fraction it denotes: Flt(v) is the text of v / 100.      *)
(***************************************************************************)
Flt(v) == Tok("flt", v)
\* a summary line; g holds the second number when the line's pattern matches
SummaryTok(k, a, b) == [k |-> k, v |-> a, c |-> 0, g |-> b]

\* float(tok): <<TRUE, fraction>> or <<FALSE, 0>> (ValueError)
ParseFloat(tok) ==
    IF tok.k = "flt" THEN <<TRUE, Frac(tok.v, 100)>>
    ELSE IF tok.k = "num" /\ tok.c = 0 THEN <<TRUE, Frac(tok.v, 1)>>
    ELSE <<FALSE, 0>>

\* line.startswith('#'), line.startswith('Database')
StartsWithHash(line) == Len(line) > 0 /\ line[1].k \in {"#", "#[Mean", "#[Max"}
StartsWithDatabase(line) == Len(line) > 0 /\ line[1].k = "Database size:"

\* lines 66-79: the percentile entries a line adds (none or one)
PercentileEntry(line) ==
    IF /\ line # <<>>
       /\ ~StartsWithHash(line)
       /\ ~StartsWithDatabase(line)
       /\ Len(line) >= 3
       /\ ParseFloat(line[1])[1]
       /\ ParseFloat(line[2])[1]
       /\ ParseInt(line[3], FALSE)[1]
    THEN <<[value_us |-> ParseFloat(line[1])[2],
            percentile |-> ParseFloat(line[2])[2],
            count |-> ParseInt(line[3], FALSE)[2]]>>
    ELSE <<>>

\* lines 64-79
RECURSIVE PercentileData(_)
PercentileData(body) ==
    IF body = <<>> THEN <<>>
    ELSE PercentileEntry(Head(body)) \o PercentileData(Tail(body))

\* lines 84-101: the summary fields one line sets
SummaryOfLine(line) ==
    IF line = <<>> \/ line[1].g = <<>> THEN <<>>
    ELSE IF line[1].k = "#[Mean"
         THEN [mean |-> Frac(line[1].v, 100), std_dev |-> Frac(line[1].g[1], 100)]
    ELSE IF line[1].k = "#[Max"
         THEN [max |-> Frac(line[1].v, 100), total_count |-> line[1].g[1]]
    ELSE IF line[1].k = "Database size:"
         THEN [db_size_mb |-> Frac(line[1].v, 100)]
    ELSE IF line[1].k = "INDEX size:"
         THEN [index_size_mb |-> Frac(line[1].v, 100)]
    ELSE <<>>

\* lines 82-101
RECURSIVE Summary(_, _)
Summary(body, acc) ==
    IF body = <<>> THEN acc
    ELSE Summary(Tail(body), SummaryOfLine(Head(body)) @@ acc)

\* lines 104-108: the entry stored in hdr_data
HdrEntry(params, body) ==
    [params |-> params,
     percentile_data |-> PercentileData(body),
     summary |-> Summary(body, <<>>)]

\* lines 51-108: the loop of extract_hdr_stats over the globbed files
RECURSIVE ExtractHdr(_, _)
ExtractHdr(hd, files) ==
    IF files = <<>> THEN hd
    ELSE LET f == Head(files)
             params == ParseFilename(f.name)
         IN  IF params = <<>>
             THEN ExtractHdr(hd, Tail(files))
             ELSE ExtractHdr(
                      (KeyOf(params[1]) :> HdrEntry(params[1], f.body)) @@ hd, Tail(files))

\* lines 116-226: the loop of extract_log_data over the globbed files; an
\* exception in a file leaves the method with the entries stored so far
RECURSIVE ExtractLog(_, _)
ExtractLog(ld, files) ==
    IF files = <<>> THEN [log_data |-> ld, raised |-> FALSE]
    ELSE LET f == Head(files)
             params == ParseFilename(f.name)
         IN  IF params = <<>>
             THEN ExtractLog(ld, Tail(files))
             ELSE LET st == ParseLines(ParserStart, f.body)
                  IN  IF st.pc = "raised"
                      THEN [log_data |-> ld, raised |-> TRUE]
                      ELSE ExtractLog(
                               StoreLog(ld, KeyOf(params[1]), params[1],
                                        st.config, st.per_second_data),
                               Tail(files))

(***************************************************************************)
(* Read correlator: save_summary_to_csv and create_dataframes.             *)
(***************************************************************************)
\* d.get(k, dflt)
Get(d, k, dflt) == IF k \in DOMAIN d THEN d[k] ELSE dflt

\* the order of Python tuples of three integers
LexLess(a, b) ==
    \/ a[1] < b[1]
    \/ a[1] = b[1] /\ a[2] < b[2]
    \/ a[1] = b[1] /\ a[2] = b[2] /\ a[3] < b[3]

\* sorted(keys)
RECURSIVE SortedKeys(_)
SortedKeys(ks) ==
    IF ks = {} THEN <<>>
    ELSE LET m == CHOOSE k \in ks : \A o \in ks \ {k} : LexLess(k, o)
         IN  <<m>> \o SortedKeys(ks \ {m})

\* round(x, 2) of a non-negative fraction: the nearest hundredth, ties to even
Round2(x) ==
    LET q == (200 * x.num + x.den) \div (2 * x.den)
        tie == (200 * x.num + x.den) % (2 * x.den) = 0
    IN  Frac(IF tie /\ q % 2 = 1 THEN q - 1 ELSE q, 100)

\* round(x, 2) in save_summary_to_csv, x itself in create_dataframes
Rounded(x, round) == IF round THEN Round2(x) ELSE x

\* lines 271-292 and 322-343: the row of a key that has both entries
SummaryRow(key, log_entry, hdr_entry, round) ==
    LET agg == log_entry.aggregate
        latency == agg.latency
        summary == hdr_entry.summary
    IN  [percentage |-> key[1],
         size_kb |-> Frac(key[2], 1024),
         threads |-> key[3],
         avg_tps |-> Rounded(agg.avg_tps, round),
         max_tps |-> agg.max_tps,
         min_tps |-> agg.min_tps,
         avg_p50_us |-> Rounded(latency.avg_p50, round),
         avg_p90_us |-> Rounded(latency.avg_p90, round),
         avg_p99_us |-> Rounded(latency.avg_p99, round),
         max_p99_us |-> latency.max_p99,
         mean_latency_us |-> Rounded(Get(summary, "mean", Frac(0, 1)), round),
         max_latency_us |-> Get(summary, "max", Frac(0, 1)),
         std_dev_us |-> Rounded(Get(summary, "std_dev", Frac(0, 1)), round),
         db_size_mb |-> Get(summary, "db_size_mb", Frac(0, 1)),
         index_size_mb |-> Get(summary, "index_size_mb", Frac(0, 1))]

\* the test of lines 268 and 319 without its hdr_entry half: every log key gets a row
HasBothEntriesLogOnly(hd, ld, key) == key \in DOMAIN ld

\* lines 265-269 and 316-320: log_entry and hdr_entry are both there
HasBothEntries(hd, ld, key) == key \in DOMAIN ld /\ key \in DOMAIN hd

\* an hdr_entry for the row of a key: hdr_data.get(key, {}) with .get('summary', {})
HdrEntryOrEmpty(hd, key) == Get(hd, key, [summary |-> <<>>])

\* lines 262-294 and 313-345: the rows of the keys ks (sorted), in order
RECURSIVE SummaryRows(_, _, _, _)
SummaryRows(hd, ld, ks, round) ==
    IF ks = <<>> THEN <<>>
    ELSE LET key == Head(ks)
         IN  (IF HasBothEntries(hd, ld, key)
              THEN <<SummaryRow(key, ld[key], HdrEntryOrEmpty(hd, key), round)>>
              ELSE <<>>)
             \o SummaryRows(hd, ld, Tail(ks), round)

\* the join with the keys it gives no row taken out of the two maps
SummaryJoinPruning(hd, ld, round) ==
    [rows |-> SummaryRows(hd, ld, SortedKeys(DOMAIN ld), round),
     hdr_data |-> [k \in DOMAIN hd \cap DOMAIN ld |-> hd[k]],
     log_data |-> [k \in DOMAIN hd \cap DOMAIN ld |-> ld[k]]]

\* lines 260-294 and 311-345: the rows, and the two maps after the loop (read
\* with .get only, so as they were)
SummaryJoin(hd, ld, round) ==
    [rows |-> SummaryRows(hd, ld, SortedKeys(DOMAIN ld), round),
     hdr_data |-> hd,
     log_data |-> ld]

\* lines 356-372: the per-second rows of one log entry
PerSecondRowsOf(key, psd) ==
    [i \in DOMAIN psd |->
        [percentage |-> key[1],
         size_kb |-> Frac(key[2], 1024),
         threads |-> key[3],
         timestamp |-> psd[i].timestamp,
         seconds |-> Get(psd[i], "seconds", 0),
         tps |-> Get(psd[i], "tps", 0),
         hits |-> Get(psd[i], "hits", 0),
         misses |-> Get(psd[i], "misses", 0),
         timeouts |-> Get(psd[i], "timeouts", 0),
         errors |-> Get(psd[i], "errors", 0),
         p50 |-> Get(psd[i], "p50", 0),
         p90 |-> Get(psd[i], "p90", 0),
         p99 |-> Get(psd[i], "p99", 0),
         p99_9 |-> Get(psd[i], "p99_9", 0),
         p99_99 |-> Get(psd[i], "p99_99", 0)]]

\* lines 350-376: the per-second rows, grouped by key (the order of the groups,
\* the insertion order of the dict, is not modelled)
PerSecondRows(ld) ==
    [k \in DOMAIN ld |-> PerSecondRowsOf(k, ld[k].per_second_data)]

\* lines 230-237: extract_all_data
ExtractAll(hd, ld, hfiles, lfiles) ==
    LET l == ExtractLog(ld, lfiles)
    IN  [hdr_data |-> ExtractHdr(hd, hfiles), log_data |-> l.log_data, raised |-> l.raised]

\* lines 256-257 and 307-308: if not self.hdr_data or not self.log_data: self.extract_all_data()
EnsureExtracted(hd, ld, hfiles, lfiles) ==
    IF DOMAIN hd = {} \/ DOMAIN ld = {}
    THEN ExtractAll(hd, ld, hfiles, lfiles)
    ELSE [hdr_data |-> hd, log_data |-> ld, raised |-> FALSE]

(***************************************************************************)
(* Files of the read pipeline in the model.                                *)
(***************************************************************************)
\* read_latency_50pct_1024B_thr20_1<ext>, ..._2<ext>
NameA(ts, ext) ==
    <<Lit("read_latency_"), Digits(<<5, 0>>), Lit("pct_"), Digits(<<1, 0, 2, 4>>),
      Lit("B_thr"), Digits(<<2, 0>>), Lit("_"), Digits(<<ts>>), Lit(ext)>>
\* read_latency_075pct_2048B_thr8_<ts><ext>
NameB(ts, ext) ==
    <<Lit("read_latency_"), Digits(<<0, 7, 5>>), Lit("pct_"), Digits(<<2, 0, 4, 8>>),
      Lit("B_thr"), Digits(<<8>>), Lit("_"), Digits(<<ts>>), Lit(ext)>>
\* read_latency_25pct_1024B_thr20_<ts><ext>
NameC(ts, ext) ==
    <<Lit("read_latency_"), Digits(<<2, 5>>), Lit("pct_"), Digits(<<1, 0, 2, 4>>),
      Lit("B_thr"), Digits(<<2, 0>>), Lit("_"), Digits(<<ts>>), Lit(ext)>>
\* read_latency_50pct_1024B_thr20<ext>: no timestamp
NameNoTimestamp(ext) ==
    <<Lit("read_latency_"), Digits(<<5, 0>>), Lit("pct_"), Digits(<<1, 0, 2, 4>>),
      Lit("B_thr"), Digits(<<2, 0>>), Lit(ext)>>

KeyA == <<50, 1024, 20>>
KeyB == <<75, 2048, 8>>
KeyC == <<25, 1024, 20>>

\* `Value Percentile TotalCount 1/(1-Percentile)` / `120.00 0.50 10 2.00` /
\* `#[Mean = 123.45, StdDeviation = 6.70]` / `#[Max = 999.00, Total count = 10]`
HdrBody1 ==
    <<<<Word(1), Word(2), Word(3), Word(4)>>,
      <<Flt(12000), Flt(50), Num(10, 0), Flt(200)>>,
      <<SummaryTok("#[Mean", 12345, <<670>>)>>,
      <<SummaryTok("#[Max", 99900, <<10>>)>>>>
\* `980.00 0.99 99 100.00` / `n/a 1.00 100` / `#[Mean = 200.00, StdDeviation = 1.00]` /
\* `Database size: Total: 512.00 MB`
HdrBody2 ==
    <<<<Flt(98000), Flt(99), Num(99, 0), Flt(10000)>>,
      <<Word(5), Flt(100), Num(100, 0)>>,
      <<SummaryTok("#[Mean", 20000, <<100>>)>>,
      <<SummaryTok("Database size:", 51200, <<0>>)>>>>

HdrFileChoices ==
    {[name |-> NameA(1, ".txt"), body |-> HdrBody1],
     [name |-> NameA(2, ".txt"), body |-> HdrBody2],
     [name |-> NameB(1, ".txt"), body |-> HdrBody2],
     [name |-> NameNoTimestamp(".txt"), body |-> HdrBody1]}

LogFileChoices ==
    {[name |-> NameB(1, ".log"), body |-> <<CfgLine, StageLine, TpsLineA, HdrLine11>>],
     [name |-> NameC(1, ".log"), body |-> <<StageLine, TpsLineB, HdrLine12>>],
     [name |-> NameNoTimestamp(".log"), body |-> <<StageLine, TpsLineA>>],
     [name |-> NameA(1, ".log"), body |-> <<CfgLine, StageLine>>],
     [name |-> NameA(2, ".log"), body |-> <<StageLine, TpsLineA, TpsLineOneToken>>]}

\* what glob.glob can return: up to n files of S in any order, each once
FilesUpTo(S, n) ==
    {fs \in UNION {[1..k -> S] : k \in 0..n} :
        \A i, j \in DOMAIN fs : fs[i] = fs[j] => i = j}

(***************************************************************************)
(* SpecPipe: the methods of a BenchmarkDataExtractor over a fixed set of   *)
(* files.                                                                  *)
(***************************************************************************)
InitPipe ==
    /\ hdr_files \in FilesUpTo(HdrFileChoices, MaxFiles)
    /\ log_files \in FilesUpTo(LogFileChoices, MaxFiles)
    /\ hdr_data = <<>>
    /\ log_data = <<>>
    /\ rows = <<>>
    /\ per_second_rows = <<>>
    /\ ppc = "idle"
    /\ lines = <<>>
    /\ in_config = TRUE
    /\ config = <<>>
    /\ per_second_data = <<>>
    /\ pc = "parsing"
    /\ InitHdrLocals
    /\ InitViz

\* extract_hdr_stats (lines 47-110)
ExtractHdrStats ==
    /\ ppc = "idle"
    /\ UNCHANGED <<hdr_files, log_files, log_data, rows, per_second_rows, ppc, logVars, pctVars, vizVars>>
    /\ hdr_data' = ExtractHdr(hdr_data, hdr_files)

\* extract_log_data (lines 112-228)
ExtractLogData ==
    /\ ppc = "idle"
    /\ UNCHANGED <<hdr_files, log_files, hdr_data, rows, per_second_rows, logVars, pctVars, vizVars>>
    /\ \E l \in {ExtractLog(log_data, log_files)} :
           /\ log_data' = l.log_data
           /\ ppc' = IF l.raised THEN "raised" ELSE "idle"

\* extract_all_data (lines 230-237)
ExtractAllData ==
    /\ ppc = "idle"
    /\ UNCHANGED <<hdr_files, log_files, rows, per_second_rows, logVars, pctVars, vizVars>>
    /\ \E e \in {ExtractAll(hdr_data, log_data, hdr_files, log_files)} :
           /\ hdr_data' = e.hdr_data
           /\ log_data' = e.log_data
           /\ ppc' = IF e.raised THEN "raised" ELSE "idle"

\* save_summary_to_csv (lines 254-303)
SaveSummaryToCsv ==
    /\ ppc = "idle"
    /\ UNCHANGED <<hdr_files, log_files, per_second_rows, logVars, pctVars, vizVars>>
    /\ \E e \in {EnsureExtracted(hdr_data, log_data, hdr_files, log_files)} :
           IF e.raised
           THEN /\ hdr_data' = e.hdr_data
                /\ log_data' = e.log_data
                /\ ppc' = "raised"
                /\ UNCHANGED rows
           ELSE \E j \in {SummaryJoin(e.hdr_data, e.log_data, TRUE)} :
                /\ hdr_data' = j.hdr_data
                /\ log_data' = j.log_data
                /\ rows' = j.rows
                /\ UNCHANGED ppc

\* create_dataframes (lines 305-381)
CreateDataframes ==
    /\ ppc = "idle"
    /\ UNCHANGED <<hdr_files, log_files, logVars, pctVars, vizVars>>
    /\ \E e \in {EnsureExtracted(hdr_data, log_data, hdr_files, log_files)} :
           IF e.raised
           THEN /\ hdr_data' = e.hdr_data
                /\ log_data' = e.log_data
                /\ ppc' = "raised"
                /\ UNCHANGED <<rows, per_second_rows>>
           ELSE \E j \in {SummaryJoin(e.hdr_data, e.log_data, FALSE)} :
                /\ hdr_data' = j.hdr_data
                /\ log_data' = j.log_data
                /\ rows' = j.rows
                /\ per_second_rows' = PerSecondRows(j.log_data)
                /\ UNCHANGED ppc

NextPipe ==
    \/ ExtractHdrStats
    \/ ExtractLogData
    \/ ExtractAllData
    \/ SaveSummaryToCsv
    \/ CreateDataframes

SpecPipe == InitPipe /\ [][NextPipe]_vars

(***************************************************************************)
(* Properties of the read pipeline, checked under SpecPipe.                *)
(***************************************************************************)
\* the ConfigKey of a summary row
RowKey(r) == <<r.percentage, r.size_kb.num, r.threads>>
RowKeys(rs) == {RowKey(rs[i]) : i \in DOMAIN rs}

\* a step that builds the summary rows and returns
BuildsRows == (SaveSummaryToCsv \/ CreateDataframes) /\ ppc' = "idle"

\* C6: the summary rows built by save_summary_to_csv and create_dataframes
\* hold one row for each ConfigKey that is a key of both hdr_data and log_data,
\* and no other row.
C6_InnerJoin ==
    [][BuildsRows =>
          /\ RowKeys(rows') = DOMAIN hdr_data' \cap DOMAIN log_data'
          /\ Len(rows') = Cardinality(DOMAIN hdr_data' \cap DOMAIN log_data')]_vars

\* histogram keys {A, B} and log keys {B, C} give the row set {B}
C6_Witness ==
    /\ DOMAIN hdr_data = {KeyA, KeyB}
    /\ DOMAIN log_data = {KeyB, KeyC}
    /\ Len(rows) = 1
    /\ RowKey(rows[1]) = KeyB

\* C7: building the summary rows leaves every entry of hdr_data and log_data
\* in place with its value, and a key of only one of the two maps has no row.
C7_JoinKeepsSources ==
    [][(SaveSummaryToCsv \/ CreateDataframes) =>
          /\ \A k \in DOMAIN hdr_data : k \in DOMAIN hdr_data' /\ hdr_data'[k] = hdr_data[k]
          /\ \A k \in DOMAIN log_data : k \in DOMAIN log_data' /\ log_data'[k] = log_data[k]
          /\ ppc' = "idle" =>
                \A k \in (DOMAIN hdr_data' \cup DOMAIN log_data')
                            \ (DOMAIN hdr_data' \cap DOMAIN log_data') :
                    k \notin RowKeys(rows')]_vars

C7_Witness ==
    /\ rows # <<>>
    /\ KeyA \in DOMAIN hdr_data /\ KeyA \notin DOMAIN log_data
    /\ KeyC \in DOMAIN log_data /\ KeyC \notin DOMAIN hdr_data
    /\ KeyA \notin RowKeys(rows) /\ KeyC \notin RowKeys(rows)
    /\ hdr_data[KeyA].summary.mean = Frac(12345, 100)
    /\ log_data[KeyC].aggregate.max_tps = 2000

\* the percentage, size and thread count written in a file name of the model,
\* <<key>>, or <<>> for a name without the pattern
EncodedKey(name) ==
    IF \E ts \in 1..2, ext \in {".txt", ".log"} : name = NameA(ts, ext) THEN <<KeyA>>
    ELSE IF \E ts \in 1..2, ext \in {".txt", ".log"} : name = NameB(ts, ext) THEN <<KeyB>>
    ELSE IF \E ts \in 1..2, ext \in {".txt", ".log"} : name = NameC(ts, ext) THEN <<KeyC>>
    ELSE <<>>

EncodedKeys(files) ==
    {EncodedKey(files[i].name)[1] : i \in {j \in DOMAIN files : EncodedKey(files[j].name) # <<>>}}

\* the log files that have a name with the pattern and a throughput line
WithSamples(files) ==
    SelectSeq(files, LAMBDA f : \E i \in DOMAIN f.body : IsThroughputLine(f.body[i]))

\* parse_filename on every file name of the model
ParsesEveryName ==
    \A f \in HdrFileChoices \cup LogFileChoices :
        LET p == ParseFilename(f.name)
        IN  IF EncodedKey(f.name) = <<>>
            THEN p = <<>>
            ELSE p # <<>> /\ KeyOf(p[1]) = EncodedKey(f.name)[1]

\* C8: parse_filename gives the percentage, size and thread count written in
\* a name that has the pattern, as integers, and None for any other name; the
\* extraction loops store entries for the files with the pattern only, those
\* that come after a file without it included.
C8_ParseFilename ==
    [][/\ (ExtractHdrStats \/ ExtractLogData) => ParsesEveryName
       /\ ExtractHdrStats =>
             DOMAIN hdr_data' = DOMAIN hdr_data \cup EncodedKeys(hdr_files)
       /\ (ExtractLogData /\ ppc' = "idle") =>
             DOMAIN log_data' = DOMAIN log_data \cup EncodedKeys(WithSamples(log_files))]_vars

C8_Witness ==
    /\ Len(hdr_files) = 2
    /\ ParseFilename(hdr_files[1].name) = <<>>
    /\ hdr_files[2].name = NameB(1, ".txt")
    /\ DOMAIN hdr_data = {KeyB}
    /\ hdr_data[KeyB].params.percentage = 75
    /\ hdr_data[KeyB].params.size_bytes = 2048
    /\ hdr_data[KeyB].params.threads = 8

(***************************************************************************)
(* Write histogram parser: parse_hdr_file of the write pipeline (lines     *)
(* 45-121).  A float of this parser is kept as its number of 1/10000:      *)
(* 0.99 is 9900, the tolerance 0.001 is 10.  The doubles of the code       *)
(* differ from these decimals by less than 1e-15: the comparisons of lines *)
(* 105 and 110 agree with the ones on the decimals unless two distances    *)
(* are equal or a distance is exactly 0.001, which no line of WLineChoices *)
(* produces for a target of LookupTargets.                                 *)
(***************************************************************************)
\* the text of v / 10000, with a decimal point
Flt4(v) == Tok("flt4", v)
\* the float of the whole number x
Whole(x) == 10000 * x

\* the tolerance 0.001 of line 110
Tolerance == 10

\* the targets of lines 115-120: 0.5, 0.9, 0.95, 0.99, 0.999, 0.9999
KeyTargets ==
    [p50 |-> 5000, p90 |-> 9000, p95 |-> 9500, p99 |-> 9900, p99_9 |-> 9990, p99_99 |-> 9999]

\* float(tok) in 1/10000: <<TRUE, x>> or <<FALSE, 0>> (ValueError)
ParseFloat4(tok) ==
    IF tok.k = "flt4" THEN <<TRUE, tok.v>>
    ELSE IF tok.k = "flt" THEN <<TRUE, 100 * tok.v>>
    ELSE IF tok.k = "num" /\ tok.c = 0 THEN <<TRUE, Whole(tok.v)>>
    ELSE <<FALSE, 0>>

\* k in d
DictHas(d, k) == \E i \in DOMAIN d : d[i][1] = k
\* d[k]
DictGet(d, k) == d[CHOOSE i \in DOMAIN d : d[i][1] = k][2]
\* d[k] = v: in place for a key of d, at the end for a new key
DictPut(d, k, v) ==
    IF DictHas(d, k)
    THEN [i \in DOMAIN d |-> IF d[i][1] = k THEN <<k, v>> ELSE d[i]]
    ELSE Append(d, <<k, v>>)

\* line.startswith('INDEX')
StartsWithIndex(line) == Len(line) > 0 /\ line[1].k = "INDEX size:"

\* lines 53-62: the percentile table after a line
PercentilesAfter(d, line) ==
    IF /\ line # <<>>
       /\ ~StartsWithHash(line)
       /\ ~StartsWithDatabase(line)
       /\ ~StartsWithIndex(line)
       /\ Len(line) >= 3
       /\ ParseFloat4(line[1])[1]
       /\ ParseFloat4(line[2])[1]
    THEN DictPut(d, ParseFloat4(line[2])[2], ParseFloat4(line[1])[2])
    ELSE d

\* lines 65-92: the summary locals after a line; v is the first number of the
\* line and g its second one, None and <<>> when the pattern does not match
StatsAfter(st, line) ==
    IF line = <<>> THEN st
    ELSE IF line[1].k = "#[Mean"
         THEN [st EXCEPT !.mean = IF line[1].v # None THEN line[1].v ELSE @,
                         !.std_dev = IF line[1].g # <<>> THEN line[1].g[1] ELSE @]
    ELSE IF line[1].k = "#[Max"
         THEN [st EXCEPT !.max_value = IF line[1].v # None THEN line[1].v ELSE @,
                         !.total_count = IF line[1].g # <<>> THEN line[1].g[1] ELSE @]
    ELSE IF line[1].k = "Database size:"
         THEN [st EXCEPT !.db_size = IF line[1].v # None THEN line[1].v ELSE @]
    ELSE IF line[1].k = "INDEX size:"
         THEN [st EXCEPT !.index_size = IF line[1].v # None THEN line[1].v ELSE @]
    ELSE st

\* abs(p - target)
AbsDiff(a, b) == IF a >= b THEN a - b ELSE b - a

\* lines 100-107: the loop over percentiles.keys(); min_diff None stands for inf
RECURSIVE ClosestFrom(_, _, _, _)
ClosestFrom(d, t, i, acc) ==
    IF i > Len(d) THEN acc
    ELSE LET diff == AbsDiff(d[i][1], t)
         IN  IF acc.min_diff = None \/ diff < acc.min_diff
             THEN ClosestFrom(d, t, i + 1, [closest_percentile |-> d[i][1], min_diff |-> diff])
             ELSE ClosestFrom(d, t, i + 1, acc)

\* find_closest_percentile without the test of line 110: the closest, however far
FindClosestAnyDistance(d, t) ==
    IF DictHas(d, t) THEN DictGet(d, t)
    ELSE LET c == ClosestFrom(d, t, 1, [closest_percentile |-> None, min_diff |-> None])
         IN  IF c.min_diff # None
             THEN DictGet(d, c.closest_percentile)
             ELSE None

\* lines 95-112: find_closest_percentile
FindClosestPercentile(d, t) ==
    IF DictHas(d, t) THEN DictGet(d, t)
    ELSE LET c == ClosestFrom(d, t, 1, [closest_percentile |-> None, min_diff |-> None])
         IN  IF c.min_diff # None /\ c.min_diff <= Tolerance
             THEN DictGet(d, c.closest_percentile)
             ELSE None

\* lines 114-121
KeyPercentiles(d) == [n \in DOMAIN KeyTargets |-> FindClosestPercentile(d, KeyTargets[n])]

(***************************************************************************)
(* Lines of a write histogram file in the model.                           *)
(***************************************************************************)
\* `Value Percentile TotalCount 1/(1-Percentile)`
WHeaderLine == <<Word(1), Word(2), Word(3), Word(4)>>
\* `<v> <p> <count> <inv>`: the whole number v at percentile p / 10000
WDataLine(v, p) == <<Num(v, 0), Flt4(p), Num(10, 0), Flt(200)>>
\* `120.00 n/a 10`
WJunkLine == <<Flt(12000), Word(5), Num(10, 0)>>
\* `#[Mean = 123.45, StdDeviation = 6.70]`
WMeanLine == <<SummaryTok("#[Mean", 12345, <<670>>)>>

WLineChoices ==
    {WHeaderLine, WJunkLine, WMeanLine,
     WDataLine(120, 5000), WDataLine(121, 5000), WDataLine(980, 9900),
     WDataLine(970, 9892), WDataLine(990, 9907), WDataLine(991, 9912)}

\* the arguments find_closest_percentile is applied to: those of lines 115-120
\* and 0.9901
LookupTargets == {KeyTargets[n] : n \in DOMAIN KeyTargets} \cup {9901}

(***************************************************************************)
(* SpecPct: parse_hdr_file of the write pipeline reading one file.         *)
(***************************************************************************)
InitPct ==
    /\ InitHdrLocals
    /\ InitViz
    /\ lines = <<>>
    /\ in_config = TRUE
    /\ config = <<>>
    /\ per_second_data = <<>>
    /\ pc = "parsing"
    /\ hdr_files = <<>>
    /\ log_files = <<>>
    /\ hdr_data = <<>>
    /\ log_data = <<>>
    /\ rows = <<>>
    /\ per_second_rows = <<>>
    /\ ppc = "idle"

\* line 47: next(f) on a file with a first line
SkipHeaderLine ==
    /\ wpc = "open"
    /\ wpc' = "reading"
    /\ UNCHANGED <<percentiles, wstats, key_percentiles, target, result, metrics, logVars, pipeVars, vizVars>>

\* line 47: next(f) on a file without lines raises StopIteration
SkipHeaderOfEmptyFile ==
    /\ wpc = "open"
    /\ wpc' = "raised"
    /\ UNCHANGED <<percentiles, wstats, key_percentiles, target, result, metrics, logVars, pipeVars, vizVars>>

\* lines 49-92: one iteration of `for line in f`
ReadHdrLine(line) ==
    /\ wpc = "reading"
    /\ Len(percentiles) < MaxTable
    /\ percentiles' = PercentilesAfter(percentiles, line)
    /\ wstats' = StatsAfter(wstats, line)
    /\ UNCHANGED <<wpc, key_percentiles, target, result, metrics, logVars, pipeVars, vizVars>>

\* lines 114-121: the end of the file
EndOfHdrFile ==
    /\ wpc = "reading"
    /\ wpc' = "done"
    /\ key_percentiles' = KeyPercentiles(percentiles)
    /\ UNCHANGED <<percentiles, wstats, target, result, metrics, logVars, pipeVars, vizVars>>

\* find_closest_percentile(t) on the table of the file
FindClosest(t) ==
    /\ wpc = "done"
    /\ target' = t
    /\ result' = FindClosestPercentile(percentiles, t)
    /\ UNCHANGED <<wpc, percentiles, wstats, key_percentiles, metrics, logVars, pipeVars, vizVars>>

NextPct ==
    \/ SkipHeaderLine
    \/ SkipHeaderOfEmptyFile
    \/ \E line \in WLineChoices : ReadHdrLine(line)
    \/ EndOfHdrFile
    \/ \E t \in LookupTargets : FindClosest(t)

SpecPct == InitPct /\ [][NextPct]_vars

\* r is what the lookup of t in table d has to give
IsLookupOf(d, t, r) ==
    LET keys == {d[i][1] : i \in DOMAIN d}
        near == {k \in keys : AbsDiff(k, t) <= 10}
    IN  IF t \in keys
        THEN \E i \in DOMAIN d : d[i] = <<t, r>>
        ELSE IF near = {}
             THEN r = None
             ELSE \E i \in DOMAIN d :
                     /\ d[i][2] = r
                     /\ d[i][1] \in near
                     /\ \A k \in keys : AbsDiff(d[i][1], t) <= AbsDiff(k, t)

\* the table {0.5: 120, 0.99: 980}
ExampleTable == <<<<5000, Whole(120)>>, <<9900, Whole(980)>>>>

WTps(n) == Tok("wtps", n)
\* text holding `write(tps=` with no digit behind it
WTpsBad == Tok("wtpsbad", 0)

\* line.startswith('20'): the dates of the model are of the years 20xx
StartsWith20(line) == Len(line) > 0 /\ line[1].k \in {"date", "datetps"}
\* line.startswith('hdr:')
StartsWithHdr(line) == Len(line) > 0 /\ line[1].k = "hdr:"
\* line.startswith('hdr: write')
IsHdrWrite(line) ==
    /\ Len(line) >= 2
    /\ line[1].k = "hdr:"
    /\ line[2].k = "write"
\* 'write(tps=' in line
HasWriteTps(line) == \E i \in DOMAIN line : line[i].k \in {"wtps", "wtpsbad"}
\* re.search(r'write\(tps=(\d+)', line)
WTpsMatchIndex(line) ==
    IF \E i \in DOMAIN line : line[i].k = "wtps"
    THEN CHOOSE i \in DOMAIN line :
            /\ line[i].k = "wtps"
            /\ \A j \in DOMAIN line : line[j].k = "wtps" => i <= j
    ELSE 0

\* lines 178-183: configuration information
WConfigStep(st, line) ==
    IF HasColon(line) /\ ~StartsWith20(line) /\ ~StartsWithHdr(line)
    THEN [st EXCEPT !.config = ConfigPut(st.config, line)]
    ELSE st

\* lines 189-198 raise: ValueError of an int(), IndexError of parts[10]
WHdrRaises(parts) ==
    \/ Len(parts) < 11
    \/ \E i \in 3..10 : ~ParseInt(Part(parts, i), TRUE)[1]
    \/ Len(parts) > 11 /\ ~ParseInt(Part(parts, 11), FALSE)[1]

\* lines 200-211: the entry appended to metrics
WMetric(parts) ==
    [timestamp |-> <<Part(parts, 2)>>,
     seconds |-> ParseInt(Part(parts, 3), TRUE)[2],
     total |-> ParseInt(Part(parts, 4), TRUE)[2],
     min_latency |-> ParseInt(Part(parts, 5), TRUE)[2],
     max_latency |-> ParseInt(Part(parts, 6), TRUE)[2],
     p50 |-> ParseInt(Part(parts, 7), TRUE)[2],
     p90 |-> ParseInt(Part(parts, 8), TRUE)[2],
     p99 |-> ParseInt(Part(parts, 9), TRUE)[2],
     p999 |-> ParseInt(Part(parts, 10), TRUE)[2],
     p9999 |-> IF Len(parts) > 11 THEN ParseInt(Part(parts, 11), FALSE)[2] ELSE None]

\* lines 186-211: a `hdr: write` histogram line; nothing catches what it raises
WHistogramStep(st, line) ==
    IF IsHdrWrite(line) /\ Len(line) >= 10
    THEN IF WHdrRaises(line)
         THEN [st EXCEPT !.pc = "raised"]
         ELSE [st EXCEPT !.metrics = Append(@, WMetric(line))]
    ELSE st

\* lines 214-218: a throughput line
WThroughputStep(st, line) ==
    IF HasWriteTps(line) /\ WTpsMatchIndex(line) # 0 /\ st.metrics # <<>>
    THEN [st EXCEPT !.metrics[Len(st.metrics)] =
                        ("tps" :> line[WTpsMatchIndex(line)].v) @@ @]
    ELSE st

\* lines 175-218: one iteration of the loop
WProcessLine(st, line) ==
    LET s2 == WHistogramStep(WConfigStep(st, line), line)
    IN  IF s2.pc = "raised" THEN s2 ELSE WThroughputStep(s2, line)

\* lines 170-171: the parser's locals before the first line
WParserStart == [config |-> <<>>, metrics |-> <<>>, pc |-> "parsing"]

\* lines 174-218: the whole loop over the lines of one file
RECURSIVE WParseLines(_, _)
WParseLines(st, ls) ==
    IF ls = <<>> \/ st.pc = "raised"
    THEN st
    ELSE WParseLines(WProcessLine(st, Head(ls)), Tail(ls))

(***************************************************************************)
(* Lines a write log file is made of in the model.                         *)
(***************************************************************************)
\* `2025-06-01 10:00:01 write(tps=1000 timeouts=0 errors=0)`
WTpsLineA == <<Date(2025), Time(1), WTps(1000), Word(3), Word(4)>>
\* `2025-06-01 10:00:02 write(tps=n/a)`
WTpsLineBad == <<Date(2025), Time(2), WTpsBad>>
\* `hdr: write ts 1, 1000, 5, 500, 50, 90, 99, 150`
WHdrLine11 ==
    <<Tok("hdr:", 0), Tok("write", 0), Word(7), Num(1, 1), Num(1000, 1), Num(5, 1),
      Num(500, 1), Num(50, 1), Num(90, 1), Num(99, 1), Num(150, 0)>>
\* `hdr: write ts 2, 2000, 6, 600, 51, 91, 98, 151, 200`
WHdrLine12 ==
    <<Tok("hdr:", 0), Tok("write", 0), Word(8), Num(2, 1), Num(2000, 1), Num(6, 1),
      Num(600, 1), Num(51, 1), Num(91, 1), Num(98, 1), Num(151, 1), Num(200, 0)>>
\* `hdr: write ts 4, 4000, 8, 800, 53, 93, 96`: ten tokens, no p99.9
WHdrLine10 ==
    <<Tok("hdr:", 0), Tok("write", 0), Word(7), Num(4, 1), Num(4000, 1), Num(8, 1),
      Num(800, 1), Num(53, 1), Num(93, 1), Num(96, 0)>>
\* `hdr: write ts 6, 6000, 9, 900, 55, 94`: nine tokens
WHdrLine9 ==
    <<Tok("hdr:", 0), Tok("write", 0), Word(7), Num(6, 1), Num(6000, 1), Num(9, 1),
      Num(900, 1), Num(55, 1), Num(94, 0)>>
\* `hdr: write ts 5, 5000, 9, 900, 54, n/a, 95, 153`: a token that is no integer
WHdrLineJunk ==
    <<Tok("hdr:", 0), Tok("write", 0), Word(7), Num(5, 1), Num(5000, 1), Num(9, 1),
      Num(900, 1), Num(54, 1), Word(2), Num(95, 1), Num(153, 0)>>

WLogLineChoices ==
    {CfgLine, WTpsLineA, WTpsLineBad, WHdrLine11, WHdrLine12, WHdrLine10, WHdrLine9,
     WHdrLineJunk}

(***************************************************************************)
(* SpecWLog: parse_log_file reading one log file with a recognized name    *)
(* line by line.                                                           *)
(***************************************************************************)
\* the parser's locals as one record
WParserState == [config |-> config, metrics |-> metrics, pc |-> pc]

InitWLog ==
    /\ lines = <<>>
    /\ in_config = TRUE
    /\ config = <<>>
    /\ per_second_data = <<>>
    /\ pc = "parsing"
    /\ log_data = <<>>
    /\ InitRest

\* one iteration of `for line in f` (lines 174-218)
WReadLine(line) ==
    /\ pc = "parsing"
    /\ Len(lines) < MaxLines
    /\ UNCHANGED <<in_config, per_second_data, pipeVars, vizVars,
                   wpc, percentiles, wstats, key_percentiles, target, result>>
    /\ \E st \in {WProcessLine(WParserState, line)} :
           /\ config' = st.config
           /\ metrics' = st.metrics
           /\ pc' = st.pc
    /\ lines' = Append(lines, line)

\* the end of the file: the return of lines 220-229
WEndOfFile ==
    /\ pc = "parsing"
    /\ pc' = "done"
    /\ UNCHANGED <<lines, in_config, config, per_second_data, pipeVars, pctVars, vizVars>>

NextWLog ==
    \/ \E line \in WLogLineChoices : WReadLine(line)
    \/ WEndOfFile

SpecWLog == InitWLog /\ [][NextWLog]_vars

(***************************************************************************)
(* Write pipeline: parse_hdr_file and parse_log_file on whole files, and   *)
(* extract_benchmark_data with create_summary_csv (lines 232-390).         *)
(***************************************************************************)
\* line 30: re.match(r'write_latency_(\d+)pct_(\d+)lastperc_(\d+)B_thr(\d+)\.txt', filename)
WHdrNameMatches(name) ==
    /\ Len(name) = 9
    /\ name[1] = Lit("write_latency_")
    /\ name[2].k = "digits"
    /\ name[3] = Lit("pct_")
    /\ name[4].k = "digits"
    /\ name[5] = Lit("lastperc_")
    /\ name[6].k = "digits"
    /\ name[7] = Lit("B_thr")
    /\ name[8].k = "digits"
    /\ name[9] = Lit(".txt")

\* line 155: re.match(r'prefill_(\d+)pct_(\d+)B_(\d+)threads\.log', filename)
WLogNameMatches(name) ==
    /\ Len(name) = 7
    /\ name[1] = Lit("prefill_")
    /\ name[2].k = "digits"
    /\ name[3] = Lit("pct_")
    /\ name[4].k = "digits"
    /\ name[5] = Lit("B_")
    /\ name[6].k = "digits"
    /\ name[7] = Lit("threads.log")

\* lines 162-167: last_pct_mapping.get(target_pct, 0), on the text of the group
LastPctOf(ds) ==
    IF ds = <<2, 5>> THEN 0
    ELSE IF ds = <<5, 0>> THEN 25
    ELSE IF ds = <<7, 5>> THEN 50
    ELSE 0

RECURSIVE WHdrLocals(_, _)
\* lines 49-92: percentiles and the summary locals after the lines ls
WHdrLocals(st, ls) ==
    IF ls = <<>> THEN st
    ELSE WHdrLocals([percentiles |-> PercentilesAfter(st.percentiles, Head(ls)),
                     wstats |-> StatsAfter(st.wstats, Head(ls))],
                    Tail(ls))

\* the locals of parse_hdr_file before the first line (lines 37-43)
WHdrStart ==
    [percentiles |-> <<>>,
     wstats |-> [mean |-> None, std_dev |-> None, max_value |-> None,
                 total_count |-> None, db_size |-> None, index_size |-> None]]

\* parse_hdr_file (lines 18-140): [raised |-> TRUE] for ValueError (line 32)
\* and StopIteration (line 47), the returned dict otherwise
ParseHdrFile(f) ==
    IF ~WHdrNameMatches(f.name) \/ f.body = <<>>
    THEN [raised |-> TRUE]
    ELSE LET st == WHdrLocals(WHdrStart, Tail(f.body))
         IN  [raised |-> FALSE,
              data |-> [metadata |-> [target_pct |-> DigitsToInt(f.name[2].d),
                                      last_pct |-> DigitsToInt(f.name[4].d),
                                      record_size |-> DigitsToInt(f.name[6].d),
                                      threads |-> DigitsToInt(f.name[8].d),
                                      db_size_mb |-> st.wstats.db_size,
                                      index_size_mb |-> st.wstats.index_size],
                        statistics |-> [mean |-> st.wstats.mean,
                                        std_dev |-> st.wstats.std_dev,
                                        max |-> st.wstats.max_value,
                                        total_count |-> st.wstats.total_count],
                        percentiles |-> KeyPercentiles(st.percentiles),
                        all_percentiles |-> st.percentiles]]

\* parse_log_file (lines 143-229): [raised |-> TRUE] for ValueError (lines 157,
\* 190-198) and IndexError (line 197), the returned dict otherwise
ParseLogFile(f) ==
    IF ~WLogNameMatches(f.name)
    THEN [raised |-> TRUE]
    ELSE LET st == WParseLines(WParserStart, f.body)
         IN  IF st.pc = "raised"
             THEN [raised |-> TRUE]
             ELSE [raised |-> FALSE,
                   data |-> [metadata |-> [target_pct |-> DigitsToInt(f.name[2].d),
                                           last_pct |-> LastPctOf(f.name[2].d),
                                           record_size |-> DigitsToInt(f.name[4].d),
                                           threads |-> DigitsToInt(f.name[6].d)],
                             config |-> st.config,
                             metrics |-> st.metrics]]

RECURSIVE WExtractHdr(_, _)
\* lines 265-272: the loop over hdr_files, each file in its try / except
WExtractHdr(hd, files) ==
    IF files = <<>> THEN [data |-> hd, raised |-> FALSE]
    ELSE LET r == ParseHdrFile(Head(files))
         IN  IF r.raised
             THEN WExtractHdr(hd, Tail(files))
             ELSE WExtractHdr((Head(files).name :> r.data) @@ hd, Tail(files))

RECURSIVE WExtractLogAborting(_, _)
\* WExtractLog without the try / except of lines 276-282
WExtractLogAborting(ld, files) ==
    IF files = <<>> THEN [data |-> ld, raised |-> FALSE]
    ELSE LET r == ParseLogFile(Head(files))
         IN  IF r.raised
             THEN [data |-> ld, raised |-> TRUE]
             ELSE WExtractLogAborting((Head(files).name :> r.data) @@ ld, Tail(files))

RECURSIVE WExtractLog(_, _)
\* lines 275-282: the loop over log_files, each file in its try / except
WExtractLog(ld, files) ==
    IF files = <<>> THEN [data |-> ld, raised |-> FALSE]
    ELSE LET r == ParseLogFile(Head(files))
         IN  IF r.raised
             THEN WExtractLog(ld, Tail(files))
             ELSE WExtractLog((Head(files).name :> r.data) @@ ld, Tail(files))

\* lines 327-345: the row of a histogram file
WHdrRow(filename, data) ==
    [source |-> "hdr",
     filename |-> filename,
     target_pct |-> data.metadata.target_pct,
     last_pct |-> data.metadata.last_pct,
     record_size |-> data.metadata.record_size,
     threads |-> data.metadata.threads,
     mean_latency |-> data.statistics.mean,
     max_latency |-> data.statistics.max,
     p50 |-> data.percentiles.p50,
     p90 |-> data.percentiles.p90,
     p95 |-> data.percentiles.p95,
     p99 |-> data.percentiles.p99,
     p99_9 |-> data.percentiles.p99_9,
     p99_99 |-> data.percentiles.p99_99,
     db_size_mb |-> data.metadata.db_size_mb,
     index_size_mb |-> data.metadata.index_size_mb,
     tps |-> None]

\* [m.get(f, 0) for m in ms]
WFieldOrZero(ms, f) == [i \in DOMAIN ms |-> IF f \in DOMAIN ms[i] THEN ms[i][f] ELSE 0]

\* lines 357-361: sum(m.get(f, 0) for m in metrics) / len(metrics)
WAverage(ms, f) == Frac(SumSeq(WFieldOrZero(ms, f)), Len(ms))

\* line 362: the average of the p9999 that are not None, None without any
WAverageP9999(ms) ==
    LET have == SelectSeq(ms, LAMBDA m : m.p9999 # None)
    IN  IF have # <<>> THEN WAverage(have, "p9999") ELSE None

\* lines 364-382: the row of a log file
WLogRow(filename, data) ==
    [source |-> "log",
     filename |-> filename,
     target_pct |-> data.metadata.target_pct,
     last_pct |-> data.metadata.last_pct,
     record_size |-> data.metadata.record_size,
     threads |-> data.metadata.threads,
     mean_latency |-> None,
     max_latency |-> None,
     p50 |-> WAverage(data.metrics, "p50"),
     p90 |-> WAverage(data.metrics, "p90"),
     p95 |-> None,
     p99 |-> WAverage(data.metrics, "p99"),
     p99_9 |-> WAverage(data.metrics, "p999"),
     p99_99 |-> WAverageP9999(data.metrics),
     db_size_mb |-> None,
     index_size_mb |-> None,
     tps |-> WAverage(data.metrics, "tps")]

RECURSIVE WHdrRows(_, _)
\* lines 322-346; the items of hdr_data come in the order the files were stored
WHdrRows(hd, files) ==
    IF files = <<>> THEN <<>>
    ELSE IF Head(files).name \in DOMAIN hd
         THEN <<WHdrRow(Head(files).name, hd[Head(files).name])>> \o WHdrRows(hd, Tail(files))
         ELSE WHdrRows(hd, Tail(files))

RECURSIVE WLogRows(_, _)
\* lines 349-383; a log without metrics gives no row (lines 353-354)
WLogRows(ld, files) ==
    IF files = <<>> THEN <<>>
    ELSE IF Head(files).name \in DOMAIN ld /\ ld[Head(files).name].metrics # <<>>
         THEN <<WLogRow(Head(files).name, ld[Head(files).name])>> \o WLogRows(ld, Tail(files))
         ELSE WLogRows(ld, Tail(files))

\* lines 312-383: summary_data
SummaryData(hd, ld, hfiles, lfiles) == WHdrRows(hd, hfiles) \o WLogRows(ld, lfiles)

(***************************************************************************)
(* Files of the write pipeline in the model.                               *)
(***************************************************************************)
\* write_latency_<pct>pct_<last>lastperc_<size>B_thr<thr>.txt
WHdrName(pct, last, size, thr) ==
    <<Lit("write_latency_"), Digits(pct), Lit("pct_"), Digits(last), Lit("lastperc_"),
      Digits(size), Lit("B_thr"), Digits(thr), Lit(".txt")>>
\* write_latency_50pct_1024B_thr20.txt: no last percentage
WHdrNameNoLast ==
    <<Lit("write_latency_"), Digits(<<5, 0>>), Lit("pct_"), Digits(<<1, 0, 2, 4>>),
      Lit("B_thr"), Digits(<<2, 0>>), Lit(".txt")>>
\* prefill_<pct>pct_<size>B_<thr>threads.log
WLogName(pct, size, thr) ==
    <<Lit("prefill_"), Digits(pct), Lit("pct_"), Digits(size), Lit("B_"),
      Digits(thr), Lit("threads.log")>>
\* prefill_50pct_1024B_thr20.log
WLogNameThr ==
    <<Lit("prefill_"), Digits(<<5, 0>>), Lit("pct_"), Digits(<<1, 0, 2, 4>>),
      Lit("B_thr"), Digits(<<2, 0>>), Lit(".log")>>

WHdrFileChoices ==
    {[name |-> WHdrName(<<5, 0>>, <<2, 5>>, <<1, 0, 2, 4>>, <<2, 0>>),
      body |-> <<WHeaderLine, WDataLine(120, 5000), WJunkLine, WDataLine(980, 9900),
                 WMeanLine>>],
     [name |-> WHdrName(<<7, 5>>, <<5, 0>>, <<2, 0, 4, 8>>, <<8>>),
      body |-> <<WHeaderLine, WDataLine(980, 9900)>>],
     [name |-> WHdrNameNoLast, body |-> <<WHeaderLine, WDataLine(120, 5000)>>],
     [name |-> WHdrName(<<2, 5>>, <<0>>, <<1, 0, 2, 4>>, <<2, 0>>), body |-> <<>>]}

WLogFileChoices ==
    {[name |-> WLogName(<<7, 5>>, <<2, 0, 4, 8>>, <<8>>),
      body |-> <<CfgLine, WHdrLine11, WTpsLineA>>],
     [name |-> WLogName(<<2, 5>>, <<1, 0, 2, 4>>, <<2, 0>>),
      body |-> <<WHdrLine12, WTpsLineA>>],
     [name |-> WLogNameThr, body |-> <<WHdrLine11>>],
     [name |-> WLogName(<<5, 0>>, <<1, 0, 2, 4>>, <<2, 0>>),
      body |-> <<WHdrLine11, WHdrLineJunk, WHdrLine12>>],
     [name |-> WLogName(<<5, 0>>, <<2, 0, 4, 8>>, <<8>>),
      body |-> <<CfgLine, WTpsLineA>>],
     [name |-> WLogName(<<2, 5>>, <<2, 0, 4, 8>>, <<8>>),
      body |-> Repeat(WHdrLine11, 10) \o <<WHdrLine12>>]}

(***************************************************************************)
(* SpecWrite: extract_benchmark_data over the files of a data directory.   *)
(* hdr_files, log_files, hdr_data and log_data are its locals of these     *)
(* names, rows is summary_data of create_summary_csv, and ppc is its       *)
(* position: "start", "hdr_parsed", "log_parsed", "done" or "raised".      *)
(***************************************************************************)
InitWrite ==
    /\ hdr_files \in FilesUpTo(WHdrFileChoices, MaxFiles)
    /\ log_files \in FilesUpTo(WLogFileChoices, MaxFiles)
    /\ hdr_data = <<>>
    /\ log_data = <<>>
    /\ rows = <<>>
    /\ per_second_rows = <<>>
    /\ ppc = "start"
    /\ lines = <<>>
    /\ in_config = TRUE
    /\ config = <<>>
    /\ per_second_data = <<>>
    /\ pc = "parsing"
    /\ InitHdrLocals
    /\ InitViz

\* lines 264-272
ParseHdrFiles ==
    /\ ppc = "start"
    /\ UNCHANGED <<hdr_files, log_files, log_data, rows, per_second_rows, logVars, pctVars, vizVars>>
    /\ \E e \in {WExtractHdr(hdr_data, hdr_files)} :
           /\ hdr_data' = e.data
           /\ ppc' = IF e.raised THEN "raised" ELSE "hdr_parsed"

\* lines 274-282
ParseLogFiles ==
    /\ ppc = "hdr_parsed"
    /\ UNCHANGED <<hdr_files, log_files, hdr_data, rows, per_second_rows, logVars, pctVars, vizVars>>
    /\ \E e \in {WExtractLog(log_data, log_files)} :
           /\ log_data' = e.data
           /\ ppc' = IF e.raised THEN "raised" ELSE "log_parsed"

\* lines 296-298: create_summary_csv (lines 304-390)
CreateSummaryCsv ==
    /\ ppc = "log_parsed"
    /\ UNCHANGED <<hdr_files, log_files, hdr_data, log_data, per_second_rows, logVars, pctVars, vizVars>>
    /\ rows' = SummaryData(hdr_data, log_data, hdr_files, log_files)
    /\ ppc' = "done"

NextWrite ==
    \/ ParseHdrFiles
    \/ ParseLogFiles
    \/ CreateSummaryCsv

SpecWrite == InitWrite /\ [][NextWrite]_vars

(***************************************************************************)
(* Properties of the write pipeline, checked under SpecWrite.              *)
(***************************************************************************)
\* the names of the files of a list that the parser returns a dict for
ParsedNames(files, Parse(_)) ==
    {files[i].name : i \in {j \in DOMAIN files : ~Parse(files[j]).raised}}

\* d holds the dict of each file of the list that parses, and nothing else
HoldsTheParsed(d, files, Parse(_)) ==
    /\ DOMAIN d = ParsedNames(files, Parse)
    /\ \A i \in DOMAIN files :
          ~Parse(files[i]).raised => d[files[i].name] = Parse(files[i]).data

\* C11: a file of the write pipeline that fails to parse (a name without the
\* pattern, an exception inside the parser) stops nothing: the batch goes on
\* to its end, the file has no entry in hdr_data / log_data, and every file
\* that parses has its entry, whatever its place in the list.
C11_FileFailureConfined ==
    /\ ppc # "raised"
    /\ ppc = "start" => hdr_data = <<>>
    /\ ppc \in {"start", "hdr_parsed"} => log_data = <<>>
    /\ ppc # "start" => HoldsTheParsed(hdr_data, hdr_files, ParseHdrFile)
    /\ ppc \in {"log_parsed", "done"} => HoldsTheParsed(log_data, log_files, ParseLogFile)

C11_Witness ==
    /\ ppc = "done"
    /\ Len(hdr_files) = 2 /\ Len(log_files) = 2
    /\ hdr_files[1].body = <<>> /\ WHdrNameMatches(hdr_files[1].name)
    /\ WLogNameMatches(log_files[1].name) /\ ParseLogFile(log_files[1]).raised
    /\ DOMAIN hdr_data = {hdr_files[2].name}
    /\ DOMAIN log_data = {log_files[2].name}
    /\ log_data[log_files[2].name].metrics # <<>>

(***************************************************************************)
(* Further properties of the read pipeline, checked under SpecPipe.        *)
(***************************************************************************)
\* hdr_data and log_data are what extract_all_data leaves on a new extractor
AfterFirstRun ==
    LET e == ExtractAll(<<>>, <<>>, hdr_files, log_files)
    IN  hdr_data = e.hdr_data /\ log_data = e.log_data

\* C12: extract_all_data run again over the same files leaves hdr_data and
\* log_data as the run before left them: a run on the maps a first run
\* produced changes nothing, and the maps any run leaves are a fixed point of
\* the extraction.
C12_ExtractionIdempotent ==
    [][ExtractAllData =>
          /\ AfterFirstRun => (hdr_data' = hdr_data /\ log_data' = log_data)
          /\ LET e == ExtractAll(hdr_data', log_data', hdr_files, log_files)
             IN  e.hdr_data = hdr_data' /\ e.log_data = log_data']_vars

C12_Witness ==
    /\ AfterFirstRun
    /\ ppc = "idle"
    /\ Len(hdr_files) = 2
    /\ ParseFilename(hdr_files[1].name) # <<>>
    /\ ParseFilename(hdr_files[2].name) # <<>>
    /\ KeyOf(ParseFilename(hdr_files[1].name)[1]) = KeyOf(ParseFilename(hdr_files[2].name)[1])
    /\ DOMAIN hdr_data = {KeyA}
    /\ hdr_data[KeyA] = HdrEntry(ParseFilename(hdr_files[2].name)[1], hdr_files[2].body)
    /\ DOMAIN log_data = {KeyB, KeyC}
    /\ Len(log_data[KeyB].per_second_data) = 1

(***************************************************************************)
(* Further properties of the read log parser, checked under Spec.          *)
(***************************************************************************)
\* the indices of the lines that begin with the stage marker
StageIdx(ls) == {i \in DOMAIN ls : IsStageMarker(ls[i])}
\* ls up to its first stage marker, that line included
ThroughFirstStage(ls) ==
    SubSeq(ls, 1, CHOOSE i \in StageIdx(ls) : \A j \in StageIdx(ls) : i <= j)

\* C13: the parser is in InConfigHeader (in_config) from the start of the file
\* up to the first line that begins with `Stage 1:`, and in InSampleStream
\* from that line on, whatever the later lines are.
C13_StateMachine == in_config = (StageIdx(lines) = {})

C13_Witness ==
    /\ Len(lines) = 4
    /\ lines[1] = CfgLine
    /\ lines[2] = StageLine
    /\ lines[3] = HdrLineJunk
    /\ lines[4] = TpsLineBad
    /\ in_config = FALSE
    /\ per_second_data = <<>>

\* C14: once the stage marker is passed config is what it was when the parser
\* left InConfigHeader: no later line changes it.
C14_ConfigFrozenAfterStage ==
    StageIdx(lines) # {} =>
        config = ParseLines(ParserStart, ThroughFirstStage(lines)).config

C14_Witness ==
    /\ Len(lines) = 3
    /\ lines[1] = StageLine
    /\ lines[2] = CfgLine
    /\ lines[3] = HdrLine11
    /\ Cardinality(DOMAIN config) = 1
    /\ config = ParseLines(ParserStart, <<StageLine>>).config

\* a line with the trailing commas of its numeric tokens taken off
StripCommas(line) ==
    [i \in DOMAIN line |-> IF line[i].k = "num" THEN Num(line[i].v, 0) ELSE line[i]]
StripHdrCommas(ls) ==
    [i \in DOMAIN ls |-> IF IsHdrRead(ls[i]) THEN StripCommas(ls[i]) ELSE ls[i]]

\* C15: the trailing commas of the numeric tokens of a `hdr: read` line count
\* for nothing, those of the p99.99 token included: the samples are the ones
\* of the same file with the commas of its `hdr: read` lines taken off.
C15_TrailingCommasStripped ==
    per_second_data = ParseLines(ParserStart, StripHdrCommas(lines)).per_second_data

(***************************************************************************)
(* SpecHist: one histogram file read by both histogram parsers, the read   *)
(* extract_hdr_stats (lines 60-108) and the write parse_hdr_file (lines    *)
(* 45-140).  In this specification `lines` is the text of the file.        *)
(***************************************************************************)
\* `120.00 0.50 10 2.00`
HDataLineP50 == <<Flt(12000), Flt(50), Num(10, 0), Flt(200)>>
\* `980.00 0.99 99 100.00`
HDataLineP99 == <<Flt(98000), Flt(99), Num(99, 0), Flt(10000)>>
\* `n/a 1.00 100`
HJunkValueLine == <<Word(5), Flt(100), Num(100, 0)>>

HistLineChoices ==
    {WHeaderLine, HDataLineP50, HDataLineP99, WJunkLine, HJunkValueLine, WMeanLine}

\* the names the file has in the two pipelines
HistReadFile == [name |-> NameA(1, ".txt"), body |-> lines]
HistWriteFile ==
    [name |-> WHdrName(<<5, 0>>, <<2, 5>>, <<1, 0, 2, 4>>, <<2, 0>>), body |-> lines]

InitHist ==
    /\ lines \in UNION {[1..k -> HistLineChoices] : k \in 0..MaxLines}
    /\ in_config = TRUE
    /\ config = <<>>
    /\ per_second_data = <<>>
    /\ pc = "parsing"
    /\ log_data = <<>>
    /\ InitRest

\* the read extract_hdr_stats on the file (lines 51-108)
ExtractHdrStatsOfFile ==
    /\ hdr_data = <<>>
    /\ UNCHANGED <<logVars, hdr_files, log_files, log_data, rows, per_second_rows, ppc,
                   pctVars, vizVars>>
    /\ hdr_data' = ExtractHdr(hdr_data, <<HistReadFile>>)

\* the write parse_hdr_file on the file (lines 18-140)
ParseHdrFileOfFile ==
    /\ wpc = "open"
    /\ UNCHANGED <<logVars, pipeVars, vizVars, target, result, metrics>>
    /\ \E r \in {ParseHdrFile(HistWriteFile)} :
           IF r.raised
           THEN /\ wpc' = "raised"
                /\ UNCHANGED <<percentiles, wstats, key_percentiles>>
           ELSE /\ wpc' = "done"
                /\ percentiles' = r.data.all_percentiles
                /\ wstats' = WHdrLocals(WHdrStart, Tail(lines)).wstats
                /\ key_percentiles' = r.data.percentiles

NextHist ==
    \/ ExtractHdrStatsOfFile
    \/ ParseHdrFileOfFile

SpecHist == InitHist /\ [][NextHist]_vars

\* a number with a decimal point or without, as float() reads it
IsFloatText(tok) == tok.k \in {"flt", "flt4"} \/ (tok.k = "num" /\ tok.c = 0)
\* a percentile-data line: value, percentile, cumulative count
IsDataLine(line) ==
    /\ Len(line) >= 3
    /\ IsFloatText(line[1])
    /\ IsFloatText(line[2])
    /\ line[3].k = "num" /\ line[3].c = 0
\* a line of three or more tokens with a number among value, percentile and
\* count, and with one of the three that does not parse
IsMalformedDataLine(line) ==
    /\ Len(line) >= 3
    /\ ~IsDataLine(line)
    /\ \E i \in 1..3 : IsFloatText(line[i])

DataIdx(ls) == {i \in DOMAIN ls : IsDataLine(ls[i])}

\* C16: in a histogram file with a malformed percentile-data line, both
\* parsers skip that line without error and record every well-formed
\* percentile-data line, before it and after it: the read parser one entry
\* per line in file order, the write parser the value of the last line of
\* each percentile.
C16_MalformedLineSkipped ==
    (\E i \in DOMAIN lines : IsMalformedDataLine(lines[i])) =>
        /\ hdr_data # <<>> =>
              LET pd == hdr_data[KeyA].percentile_data
              IN  /\ Len(pd) = Cardinality(DataIdx(lines))
                  /\ \A i \in DataIdx(lines) :
                        LET e == pd[Cardinality({j \in DataIdx(lines) : j <= i})]
                        IN  /\ e.value_us = ParseFloat(lines[i][1])[2]
                            /\ e.percentile = ParseFloat(lines[i][2])[2]
                            /\ e.count = lines[i][3].v
        /\ wpc # "raised"
        /\ wpc = "done" =>
              \A i \in DataIdx(lines) :
                  /\ DictHas(percentiles, ParseFloat4(lines[i][2])[2])
                  /\ (\A j \in DataIdx(lines) : j > i => lines[j][2] # lines[i][2]) =>
                        DictGet(percentiles, ParseFloat4(lines[i][2])[2])
                            = ParseFloat4(lines[i][1])[2]

(***************************************************************************)
(* Properties of the write summary, checked under SpecWrite.               *)
(***************************************************************************)
\* the ConfigKey of a write record or row: target and last fill percentage,
\* record size, thread count
WKeyOf(r) == <<r.target_pct, r.last_pct, r.record_size, r.threads>>
WKeys(d) == {WKeyOf(d[n].metadata) : n \in DOMAIN d}

\* C17: the summary rows of create_summary_csv hold one row for each ConfigKey
\* that has a histogram record and a log record, and no row for a ConfigKey
\* that has only one of the two.
C17_WriteSummaryInnerJoin ==
    ppc = "done" =>
        /\ {WKeyOf(rows[i]) : i \in DOMAIN rows} = WKeys(hdr_data) \cap WKeys(log_data)
        /\ Len(rows) = Cardinality(WKeys(hdr_data) \cap WKeys(log_data))

\* the average of field f over the samples after the first 10 of a log with
\* more than 10 samples, over all of them otherwise
WAverageStable(ms, f) ==
    Frac(SumSeq(WFieldOrZero(StableData(ms), f)), Len(StableData(ms)))

\* C20: the p50, p90 and p99 of the row of a log are the averages over its
\* stable window: the samples after the first 10 when it has more than 10,
\* all its samples otherwise.
C20_WriteStableWindow ==
    ppc = "done" =>
        \A i \in DOMAIN rows :
            rows[i].source = "log" =>
                LET ms == log_data[rows[i].filename].metrics
                IN  /\ rows[i].p50 = WAverageStable(ms, "p50")
                    /\ rows[i].p90 = WAverageStable(ms, "p90")
                    /\ rows[i].p99 = WAverageStable(ms, "p99")

(***************************************************************************)
(* Properties of the write log parser, checked under SpecWLog.             *)
(***************************************************************************)
\* the lines the throughput pattern matches
WThroughputIdx(ls) == {i \in DOMAIN ls : WTpsMatchIndex(ls[i]) # 0}

\* C18: the sample sequence holds one Sample per matched `write(tps=` line:
\* such a line appends a Sample, and a `hdr: write` line leaves the length of
\* the sequence as it is.
C18_ThroughputLineAppends == Len(metrics) = Cardinality(WThroughputIdx(lines))

\* the `hdr: write` lines that fail to parse: ten tokens or more with a
\* numeric token that is no integer, or without the p99.9 token
WFailingIdx(ls) ==
    {i \in DOMAIN ls : IsHdrWrite(ls[i]) /\ Len(ls[i]) >= 10 /\ WHdrRaises(ls[i])}

\* C19: a `hdr: write` line that fails to parse is skipped: nothing is raised
\* and the parser is where it is after the same lines without the failing ones.
C19_WriteHdrFailureSkipped ==
    LET w == WParseLines(WParserStart, Without(lines, WFailingIdx(lines), 1))
    IN  /\ WFailingIdx(lines) # {} => pc \in {"parsing", "done"}
        /\ metrics = w.metrics
        /\ config = w.config

(***************************************************************************)
(* Further properties of the read log parser, checked under Spec.          *)
(***************************************************************************)
\* C24: while the parser is in InConfigHeader (no stage-marker line read yet)
\* the sample sequence is empty: no throughput line has appended a Sample and
\* no histogram line has updated one.
C24_SamplesOnlyInSampleStream == in_config => per_second_data = <<>>

\* C27: when the recognized log file has been read, log_data holds a LogRecord
\* under its key with the config_header parsed from it, also when no
\* throughput line was matched.
C27_EveryLogFileYieldsRecord ==
    pc = "done" =>
        /\ KeyOf(FileParams) \in DOMAIN log_data
        /\ log_data[KeyOf(FileParams)].config = config

\* the lines strictly before the first stage-marker line (all of them when
\* there is none)
BeforeFirstStage(ls) ==
    IF StageIdx(ls) = {} THEN ls
    ELSE SubSeq(ls, 1, (CHOOSE i \in StageIdx(ls) : \A j \in StageIdx(ls) : i <= j) - 1)

\* C28: config_header holds the entries of the lines strictly before the
\* stage-marker line and nothing else: the stage-marker line adds no entry.
C28_StageLineAddsNoEntry ==
    config = ParseLines(ParserStart, BeforeFirstStage(lines)).config

\* the fields a Sample gets from its throughput line
ThroughputFields == {"timestamp", "tps", "hits", "misses", "timeouts", "errors"}

\* C29: reading a `hdr: read` line leaves the sequence as long as it was and
\* leaves the last Sample's timestamp, tps, hits, misses, timeouts and errors
\* as they were before the line.
C29_MergeKeepsThroughputFields ==
    [][(/\ pc = "parsing"
        /\ Len(lines') = Len(lines) + 1
        /\ IsHdrRead(lines'[Len(lines')])
        /\ per_second_data # <<>>)
       => /\ Len(per_second_data') = Len(per_second_data)
          /\ \A f \in ThroughputFields :
                per_second_data'[Len(per_second_data)][f]
                    = per_second_data[Len(per_second_data)][f]]_vars

(***************************************************************************)
(* SpecAlt: extract_log_data reading one recognized log file whose lines   *)
(* include throughput lines of another year and `hdr: read` lines of 9, 10 *)
(* and 11 tokens.                                                          *)
(***************************************************************************)
\* `2024-06-01 10:00:01 read(tps=1000 (hit=900 miss=100) timeouts=0 errors=0)`
TpsLine2024 == <<Date(2024), Time(1), TpsGroup(1000, 900, 100, 0, 0)>>
\* `hdr: read ts 4, 4000, 8, 800, 53, 93`: nine tokens
HdrLine9 ==
    <<Tok("hdr:", 0), Tok("read", 0), Word(7), Num(4, 1), Num(4000, 1), Num(8, 1),
      Num(800, 1), Num(53, 1), Num(93, 0)>>

AltLineChoices ==
    {StageLine, TpsLineA, TpsLine2024, HdrLine11, HdrLine9, HdrLine10, HdrLineJunk}

NextAlt ==
    \/ \E line \in AltLineChoices : ReadLine(line)
    \/ EndOfFile

SpecAlt == Init /\ [][NextAlt]_vars

\* a line that carries a timestamp (date and time) followed by a well-formed
\* `read(tps=N (hit=H miss=M) timeouts=T errors=E)` group
IsTimestampedThroughput(line) ==
    /\ Len(line) = 3
    /\ line[1].k = "date"
    /\ line[2].k = "time"
    /\ line[3].k = "tps"

\* C25: after the stage marker, reading a line with a timestamp and a
\* well-formed read(tps=...) group appends a Sample with the counts of the
\* line, whatever the year of the timestamp.
C25_ThroughputAnyTimestamp ==
    [][(/\ pc = "parsing"
        /\ Len(lines') = Len(lines) + 1
        /\ ~in_config
        /\ IsTimestampedThroughput(lines'[Len(lines')]))
       => /\ Len(per_second_data') = Len(per_second_data) + 1
          /\ LET s == per_second_data'[Len(per_second_data')]
                 t == lines'[Len(lines')][3]
             IN  /\ s.tps = t.v
                 /\ s.hits = t.g[1] /\ s.misses = t.g[2]
                 /\ s.timeouts = t.g[3] /\ s.errors = t.g[4]]_vars

\* a `hdr: read` line that is rejected: fewer than 10 tokens, exactly 10 (no
\* p99.9 token), or a token that is no integer among the numeric ones
IsRejectedHdr(line) ==
    /\ IsHdrRead(line)
    /\ \/ Len(line) <= 10
       \/ \E i \in 4..Len(line) : i <= 12 /\ line[i].k # "num"

\* C30: reading a rejected `hdr: read` line changes nothing in the sample
\* sequence: its length and every field of every Sample, the last one
\* included, are as before, and nothing is raised.
C30_RejectedHdrChangesNothing ==
    [][(/\ pc = "parsing"
        /\ Len(lines') = Len(lines) + 1
        /\ IsRejectedHdr(lines'[Len(lines')]))
       => /\ per_second_data' = per_second_data
          /\ pc' = "parsing"]_vars

\* a Sample, then a line of each rejected kind: 9 tokens, 10 tokens, `n/a`
C30_Witness ==
    /\ lines = <<TpsLineA, HdrLine9, HdrLine10, HdrLineJunk>>
    /\ per_second_data = <<SecondData(TpsLineA)>>
    /\ pc = "parsing"

(***************************************************************************)
(* Further properties of the read pipeline, checked under SpecPipe.        *)
(***************************************************************************)
\* the orders in which the files fs can be processed
Orders(fs) ==
    {[i \in DOMAIN fs |-> fs[p[i]]] :
        p \in {q \in [DOMAIN fs -> DOMAIN fs] : \A i, j \in DOMAIN fs : q[i] = q[j] => i = j}}

\* the files of fs with a recognized name
Recognized(fs) == {i \in DOMAIN fs : ParseFilename(fs[i].name) # <<>>}

\* C21: the extracted hdr_data and log_data are the same whatever the order in
\* which the files are processed, and every recognized file has its own entry
\* in them, the files that encode the same percentage, size and thread count
\* with different timestamps included.
C21_FilesIndependent ==
    /\ hdr_data # <<>> =>
          /\ \A fs \in Orders(hdr_files) : ExtractHdr(<<>>, fs) = hdr_data
          /\ \A i \in Recognized(hdr_files) :
                LET params == ParseFilename(hdr_files[i].name)[1]
                IN  hdr_data[KeyOf(params)] = HdrEntry(params, hdr_files[i].body)
    /\ (log_data # <<>> /\ ppc = "idle") =>
          /\ \A fs \in Orders(log_files) : ExtractLog(<<>>, fs).log_data = log_data
          /\ \A i \in Recognized(log_files) :
                LET params == ParseFilename(log_files[i].name)[1]
                    st == ParseLines(ParserStart, log_files[i].body)
                IN  st.per_second_data # <<>> =>
                        log_data[KeyOf(params)]
                            = LogEntry(params, st.config, st.per_second_data)

\* the number of files of fs skipped for their name
SkippedCount(fs) == Cardinality(DOMAIN fs \ Recognized(fs))

\* C23: the number of files skipped for their name can be told from what the
\* batch gives back: two directories with the same extracted data have the
\* same number of skipped files.
C23_SkippedFilesReported ==
    /\ hdr_data # <<>> =>
          \A fs \in FilesUpTo(HdrFileChoices, MaxFiles) :
              ExtractHdr(<<>>, fs) = hdr_data => SkippedCount(fs) = SkippedCount(hdr_files)
    /\ (log_data # <<>> /\ ppc = "idle") =>
          \A fs \in FilesUpTo(LogFileChoices, MaxFiles) :
              LET l == ExtractLog(<<>>, fs)
              IN  (~l.raised /\ l.log_data = log_data) =>
                      SkippedCount(fs) = SkippedCount(log_files)

(***************************************************************************)
(* Further property of the write histogram parser, checked under SpecHist. *)
(***************************************************************************)
\* C26: parse_hdr_file classifies every line of the file: the table it gives
\* is the table of all the lines, the first one included, and a file with no
\* lines gives an empty table, not a failure.
C26_EveryLineClassified ==
    /\ lines = <<>> => wpc \in {"open", "done"}
    /\ wpc = "done" =>
          /\ percentiles = WHdrLocals(WHdrStart, lines).percentiles
          /\ \A i \in DataIdx(lines) :
                DictHas(percentiles, ParseFloat4(lines[i][2])[2])

(***************************************************************************)
(* SpecJson: save_to_json of the read extractor and load_data of the read  *)
(* visualizer.  A key of the JSON file is the sequence of its characters.  *)
(***************************************************************************)
DigitChars == <<"0", "1", "2", "3", "4", "5", "6", "7", "8", "9">>
IsDigitChar(c) == \E i \in DOMAIN DigitChars : DigitChars[i] = c
DigitValue(c) == (CHOOSE i \in DOMAIN DigitChars : DigitChars[i] = c) - 1

\* str(n) of an integer n >= 0, as the f-string formats it
RECURSIVE IntToText(_)
IntToText(n) ==
    IF n < 10 THEN <<DigitChars[n + 1]>>
    ELSE IntToText(n \div 10) \o <<DigitChars[(n % 10) + 1]>>

\* KeyToString with the size written before the percentage
KeyToStringSizeFirst(k) ==
    IntToText(k[2]) \o <<"p", "c", "t", "_">> \o IntToText(k[1])
        \o <<"B", "_", "t", "h", "r">> \o IntToText(k[3])

\* lines 245-246 of save_to_json: f"{k[0]}pct_{k[1]}B_thr{k[2]}"
KeyToString(k) ==
    IntToText(k[1]) \o <<"p", "c", "t", "_">> \o IntToText(k[2])
        \o <<"B", "_", "t", "h", "r">> \o IntToText(k[3])

\* lines 244-247: the dict of one map with its keys turned into strings; of
\* keys with the same string the dict keeps one
KeysToStrings(d) ==
    [t \in {KeyToString(k) : k \in DOMAIN d} |->
        d[CHOOSE k \in DOMAIN d : KeyToString(k) = t]]

\* lines 244-247: serializable_data
SerializableData(hd, ld) ==
    [hdr_data |-> KeysToStrings(hd), log_data |-> KeysToStrings(ld)]

\* t.split(sep) for a separator of one character
RECURSIVE Split(_, _)
Split(t, sep) ==
    IF \E i \in DOMAIN t : t[i] = sep
    THEN LET i == CHOOSE j \in DOMAIN t : t[j] = sep /\ \A h \in 1..(j - 1) : t[h] # sep
         IN  <<SubSeq(t, 1, i - 1)>> \o Split(SubSeq(t, i + 1, Len(t)), sep)
    ELSE <<t>>

\* t.replace(old, '')
RECURSIVE Remove(_, _)
Remove(t, old) ==
    IF Len(t) < Len(old) THEN t
    ELSE IF SubSeq(t, 1, Len(old)) = old
         THEN Remove(SubSeq(t, Len(old) + 1, Len(t)), old)
         ELSE <<Head(t)>> \o Remove(Tail(t), old)

\* int(t) of a text: <<TRUE, n>>, or <<FALSE, 0>> (ValueError) for a text that
\* is empty or holds a character that is no digit
RECURSIVE TextToInt(_)
TextToInt(t) ==
    IF t = <<>> \/ \E i \in DOMAIN t : ~IsDigitChar(t[i]) THEN <<FALSE, 0>>
    ELSE IF Len(t) = 1 THEN <<TRUE, DigitValue(t[1])>>
    ELSE <<TRUE, 10 * TextToInt(SubSeq(t, 1, Len(t) - 1))[2] + DigitValue(t[Len(t)])>>

\* lines 54-57 of load_data: the triple read back from a key of the file
LoadKey(key) ==
    LET parts == Split(key, "_")
    IN  IF Len(parts) < 3 THEN [raised |-> TRUE]                    \* parts[2]: IndexError
        ELSE LET pct == TextToInt(Remove(parts[1], <<"p", "c", "t">>))
                 size_bytes == TextToInt(Remove(parts[2], <<"B">>))
                 threads == TextToInt(Remove(parts[3], <<"t", "h", "r">>))
             IN  IF pct[1] /\ size_bytes[1] /\ threads[1]
                 THEN [raised |-> FALSE, key |-> <<pct[2], size_bytes[2], threads[2]>>]
                 ELSE [raised |-> TRUE]                             \* int(): ValueError

\* lines 52-78 of load_data: the rows of the entries of data['log_data'],
\* grouped by key string (their rows have the fields of PerSecondRowsOf)
LoadedRows(ld) ==
    [t \in DOMAIN ld |-> PerSecondRowsOf(LoadKey(t).key, ld[t].per_second_data)]

\* save_to_json (lines 239-252), extract_all_data included
SaveToJson ==
    /\ ppc = "idle"
    /\ UNCHANGED <<hdr_files, log_files, rows, per_second_rows, logVars, pctVars,
                   per_second_df, vpc>>
    /\ \E e \in {ExtractAll(hdr_data, log_data, hdr_files, log_files)} :
           /\ hdr_data' = e.hdr_data
           /\ log_data' = e.log_data
           /\ IF e.raised
              THEN ppc' = "raised" /\ UNCHANGED data_file
              ELSE /\ ppc' = "idle"
                   /\ data_file' = <<SerializableData(e.hdr_data, e.log_data)>>

\* BenchmarkVisualizer.load_data (lines 34-82 of visualize_benchmark_data.py)
LoadData ==
    /\ vpc \in {"new", "loaded"}
    /\ UNCHANGED <<logVars, pipeVars, pctVars, data_file>>
    /\ IF data_file = <<>>
       THEN vpc' = "loaded" /\ UNCHANGED per_second_df
       ELSE IF \E t \in DOMAIN data_file[1].log_data : LoadKey(t).raised
            THEN vpc' = "raised" /\ UNCHANGED per_second_df
            ELSE /\ vpc' = "loaded"
                 /\ per_second_df' = LoadedRows(data_file[1].log_data)

NextJson ==
    \/ SaveToJson
    \/ LoadData

SpecJson == InitPipe /\ [][NextJson]_vars

\* ConfigKeys with numbers of one, two and three digits, zeros and repeated
\* digits among them
KeySpace == {<<a, b, c>> : a, b, c \in {0, 1, 10, 11, 101}}

\* distinct ConfigKeys have distinct strings, and load_data's parsing gives a
\* string's ConfigKey back
StringsRoundTrip ==
    /\ \A k1, k2 \in KeySpace : KeyToString(k1) = KeyToString(k2) => k1 = k2
    /\ \A k \in KeySpace \cup {KeyA, KeyB, KeyC} :
          LoadKey(KeyToString(k)) = [raised |-> FALSE, key |-> k]

\* C22: the JSON file is keyed by the strings `<pct>pct_<size>B_thr<threads>`
\* of the ConfigKeys of hdr_data and log_data, each string standing for one
\* ConfigKey; load_data reads every key of the file back into the percentage,
\* size and thread count it was made from, and gives its rows that triple.
C22_KeyRoundTrip ==
    /\ StringsRoundTrip
    /\ vpc # "raised"
    /\ data_file # <<>> =>
          /\ DOMAIN data_file[1].hdr_data = {KeyToString(k) : k \in DOMAIN hdr_data}
          /\ DOMAIN data_file[1].log_data = {KeyToString(k) : k \in DOMAIN log_data}
          /\ \A k \in DOMAIN hdr_data : data_file[1].hdr_data[KeyToString(k)] = hdr_data[k]
          /\ \A k \in DOMAIN log_data :
                /\ data_file[1].log_data[KeyToString(k)] = log_data[k]
                /\ LoadKey(KeyToString(k)) = [raised |-> FALSE, key |-> k]
    /\ \A t \in DOMAIN per_second_df :
          \E k \in DOMAIN log_data :
              /\ t = KeyToString(k)
              /\ Len(per_second_df[t]) = Len(log_data[k].per_second_data)
              /\ \A i \in DOMAIN per_second_df[t] :
                    /\ per_second_df[t][i].percentage = k[1]
                    /\ per_second_df[t][i].size_kb = Frac(k[2], 1024)
                    /\ per_second_df[t][i].threads = k[3]

\* the file read_latency_075pct_2048B_thr8_1.log is saved under the key
\* `75pct_2048B_thr8` and loaded as (75, 2048, 8)
C22_Witness ==
    /\ vpc = "loaded"
    /\ data_file # <<>>
    /\ KeyB \in DOMAIN log_data
    /\ KeyToString(KeyB) = <<"7", "5", "p", "c", "t", "_", "2", "0", "4", "8",
                             "B", "_", "t", "h", "r", "8">>
    /\ KeyToString(KeyB) \in DOMAIN per_second_df
    /\ Len(per_second_df[KeyToString(KeyB)]) = 1
    /\ per_second_df[KeyToString(KeyB)][1].percentage = 75
    /\ per_second_df[KeyToString(KeyB)][1].size_kb = Frac(2048, 1024)
    /\ per_second_df[KeyToString(KeyB)][1].threads = 8

====
